---- MODULE Spec2Model ----
(***************************************************************************)
(* A model of redis-mate's connection registry (app_state.rs), its         *)
(* persisted config store (db.rs) and the retry wrapper of RedisService    *)
(* (redis_service.rs).                                                     *)
(*                                                                         *)
(* The registry is modelled at the granularity of the code's await points: *)
(* every store call, every dial and every lock acquisition is one step of  *)
(* the calling task, so that concurrent calls interleave as they can in    *)
(* the tokio runtime.                                                      *)
(***************************************************************************)
EXTENDS Integers, Sequences, FiniteSets, TLC

\* ------------------------------------------------------------------ bounds

\* How many handle clones callers keep at the same time.
MaxClones == 1

\* The largest retry budget (RedisConfig.retries) of a wrapped call.
MaxRetries == 3

\* The size of a list of sentinel addresses: its pieces of text and the
\* boundaries between two addresses, counted together.
MaxInput == 5

\* The largest logical database index a request names.
MaxDb == 1

\* The number of messages that arrive on a subscription.
MaxMsgs == 3

\* The length of the list at which the caller stops making calls.
MaxList == 3

\* ------------------------------------------------------------------ values

\* Connection names, in the store's ORDER BY name order.
NameSeq == <<"a", "b">>
Names == {NameSeq[k] : k \in 1..Len(NameSeq)}

\* The tasks that call into the shared AppState; Boot runs AppState::new.
Procs == {"t1", "t2"}
Boot == "t1"

\* Option<T>: None is the empty tuple and Some(x) the one-element tuple.
None == <<>>
Some(x) == <<x>>

\* No row under a name of the redis_configs table.
NoRecord == <<>>
NoProc == "NoProc"
NoName == "-"

\* retries is a u32, and the counter compared with it is one too. TLC's
\* integers end at 2^31 - 1, so a u32, and a count that can pass u32::MAX, is
\* kept as its two 16-bit halves <<high, low>>.
Half == 2^16
U32(n) == <<n \div Half, n % Half>>
U32Max == <<Half - 1, Half - 1>>

\* w + n for a small n >= 0, and a > b.
Plus(w, n) == <<w[1] + ((w[2] + n) \div Half), (w[2] + n) % Half>>
Gt(a, b) == a[1] > b[1] \/ (a[1] = b[1] /\ a[2] > b[2])

\* impl Default for RedisConfig
DefaultConfig ==
    [urls |-> <<"redis://127.0.0.1:6379">>,
     cluster |-> FALSE,
     pool_size |-> 16,
     retries |-> U32(3),
     retry_delay_ms |-> 200,
     sentinel |-> FALSE,
     sentinel_master_name |-> None,
     sentinel_urls |-> <<>>]

CfgLocal == DefaultConfig
CfgCluster ==
    [DefaultConfig EXCEPT !.urls = <<"redis://10.0.0.1:7000", "redis://10.0.0.2:7000">>,
                          !.cluster = TRUE]

\* The configs callers supply and the store may hold: a single node and a
\* cluster. Whether a dial succeeds is the network's choice (LibOutcomes).
Configs == {CfgLocal, CfgCluster}

\* Outcome of a call into the redis client library (client open + dial) and
\* of a statement run against the SQLite pool.
LibOutcomes == {"ok", "fail"}
DbOutcomes == {"ok", "fail"}

Ok(v) == [ok |-> TRUE, val |-> v]
Err(e) == [ok |-> FALSE, val |-> e]
Pending == Err("pending")

\* ------------------------------------------------------- config <-> JSON

ConfigFields ==
    <<"urls", "cluster", "pool_size", "retries", "retry_delay_ms",
      "sentinel", "sentinel_master_name", "sentinel_urls">>

\* serde_json::to_string(config): one member per field, in declaration order.
ToJson(cfg) == [k \in 1..Len(ConfigFields) |-> <<ConfigFields[k], cfg[ConfigFields[k]]>>]

\* The value of member key of a JSON object, or the Default field
\* (#[serde(default)]) when the object has no such member.
JsonField(json, key) ==
    LET hits == {k \in 1..Len(json) : json[k][1] = key}
    IN IF hits = {} THEN DefaultConfig[key]
       ELSE json[CHOOSE k \in hits : \A j \in hits : j <= k][2]

\* serde_json::from_str::<RedisConfig>
FromJson(json) ==
    [f \in {ConfigFields[k] : k \in 1..Len(ConfigFields)} |-> JsonField(json, f)]

\* ------------------------------------------------------------- the store

\* DbManager::save_config: upsert by name.
save_config(st, name, cfg) == [st EXCEPT ![name] = ToJson(cfg)]

\* DbManager::delete_config: the table afterwards, and rows_affected() > 0.
delete_config(st, name) ==
    [store |-> [st EXCEPT ![name] = NoRecord], deleted |-> st[name] # NoRecord]

\* DbManager::list_configs: every row, ordered by name, decoded.
list_configs(st) ==
    LET rows == SelectSeq(NameSeq, LAMBDA n : st[n] # NoRecord)
    IN [k \in 1..Len(rows) |-> <<rows[k], FromJson(st[rows[k]])>>]

StoredNames(st) == {n \in Names : st[n] # NoRecord}

\* ------------------------------------------------- handle construction

\* The text of a sentinel address, of a master name and of the url built from
\* them is a sequence of atoms: runs of characters that the code never looks
\* into. "/" is one character; the other atoms hold no "/", and none of them
\* begins or ends with text of another, so one text is one sequence of atoms
\* and a prefix of characters is a prefix of atoms.
HostText == "127.0.0.1:26379"
Slash == "/"
RedisScheme == <<"redis:", Slash, Slash>>
HttpScheme == <<"http:", Slash, Slash>>
SentinelScheme == <<"redis+sentinel:", Slash, Slash>>
Comma == ","

\* str::starts_with
StartsWith(t, pat) == Len(t) >= Len(pat) /\ SubSeq(t, 1, Len(pat)) = pat

\* str::trim_start_matches(pat): the prefix is removed as long as it matches.
RECURSIVE trim_start_matches(_, _)
trim_start_matches(t, pat) ==
    IF StartsWith(t, pat)
    THEN trim_start_matches(SubSeq(t, Len(pat) + 1, Len(t)), pat)
    ELSE t

\* str::trim_end_matches(c) for a character c: every trailing c is removed.
RECURSIVE trim_end_matches(_, _)
trim_end_matches(t, c) ==
    IF Len(t) > 0 /\ t[Len(t)] = c
    THEN trim_end_matches(SubSeq(t, 1, Len(t) - 1), c)
    ELSE t

\* The closure that build_sentinel_url maps over the addresses.
NormalizeHost(u) ==
    trim_end_matches(
        trim_start_matches(trim_start_matches(u, RedisScheme), HttpScheme), Slash)

\* hosts.join(",")
RECURSIVE Join(_)
Join(hosts) ==
    IF Len(hosts) = 0 THEN <<>>
    ELSE IF Len(hosts) = 1 THEN hosts[1]
    ELSE hosts[1] \o <<Comma>> \o Join(Tail(hosts))

\* build_sentinel_url without the check of an empty list.
build_sentinel_url_NoEmptyCheck(master, urls) ==
    LET hosts == [k \in 1..Len(urls) |-> NormalizeHost(urls[k])]
    IN Ok(SentinelScheme \o Join(hosts) \o <<Slash>> \o master)

\* build_sentinel_url: the addresses normalized and joined, or an error for
\* an empty address list.
build_sentinel_url(master, urls) ==
    LET hosts == [k \in 1..Len(urls) |-> NormalizeHost(urls[k])]
    IN IF Len(hosts) = 0 THEN Err("No sentinel URLs provided")
       ELSE Ok(SentinelScheme \o Join(hosts) \o <<Slash>> \o master)

\* The `let url = ...` of RedisService::new for a config that is not a
\* cluster's: the sentinel url, or the first of cfg.urls.
ConnUrl(cfg) ==
    IF cfg.sentinel
    THEN IF cfg.sentinel_master_name = None
         THEN Err("sentinel master name required")
         ELSE build_sentinel_url(cfg.sentinel_master_name[1], cfg.sentinel_urls)
    ELSE IF Len(cfg.urls) = 0
         THEN Err("no redis url provided")
         ELSE Ok(cfg.urls[1])

\* RedisService::new: the connection kind built from cfg when the client
\* library answers lib.
RedisServiceNew(cfg, lib) ==
    IF cfg.cluster
    THEN IF lib = "ok" THEN Ok("Cluster") ELSE Err("cluster client")
    ELSE LET url == ConnUrl(cfg)
         IN IF ~url.ok THEN url
            ELSE IF lib = "ok" THEN Ok("Standalone") ELSE Err("connect")

\* The calls RedisService::new makes into the client library for cfg, in
\* order, when the library answers lib: "open" is Client::open refusing the
\* url, any other failure is the dial's.
ClientCalls(cfg, lib) ==
    IF cfg.cluster THEN <<"ClusterClient::new">>
    ELSE IF ~ConnUrl(cfg).ok THEN <<>>
    ELSE IF lib = "open" THEN <<"Client::open">>
    ELSE <<"Client::open", "get_connection_manager">>

\* ---------------------------------------------------------------- state

VARIABLES
    store,       \* redis_configs table: name -> config_json, or NoRecord
    services,    \* AppState.services: name -> Some(handle), or None
    writer,      \* the task holding services' write lock, or NoProc
    open,        \* the handles whose transport is still open
    clones,      \* handle clones that callers keep after get_service
    pc,          \* each task's position in the call it is running
    call,        \* each task's call: its arguments, locals and result
    ready,       \* AppState::new returned Ok and the state is managed
    committed,   \* services as of the last release of the write lock
    pre          \* services and store when the latest non-overlapping call began

regVars == <<store, services, writer, open, clones, pc, call, ready, committed, pre>>

\* RedisService::with_retry, one call of it on one handle.
VARIABLES
    selfCfg,     \* self.cfg of the handle
    rpc,         \* where the call is: "call" f, "sleep", "done", "panic"; or "off"
    attempts,    \* the local counter
    skipped,     \* how many turns of the loop RetryRounds ran in one step
    history,     \* what each invocation of f after those returned, in order
    logs,        \* the REDIS_RETRY warnings written
    delays,      \* the sleeps that elapsed, in milliseconds
    outcome      \* what with_retry returned

retryVars == <<selfCfg, rpc, attempts, skipped, history, logs, delays, outcome>>

\* An operation of a handle, dispatched on its connection kind inside
\* with_retry.
VARIABLES
    selfKind,   \* self.kind of the handle: "Standalone" or "Cluster"
    req,        \* the operation called and its db argument
    backend,    \* ghost: the connections opened and the commands sent so far
    server      \* the keys the backend holds, and the db of the manager connection

opVars == <<selfKind, req, backend, server>>

\* One call of a function of the crate that is checked on its own.
VARIABLES
    input,      \* the arguments of the call
    output,     \* its result, Pending before the call
    libCalls    \* ghost: the calls it made into the client library

fnVars == <<input, output, libCalls>>

\* A subscription of a handle.
VARIABLES
    sub         \* its message loop, its connection, and what went through it

subVars == <<sub>>

vars == <<regVars, retryVars, opVars, fnVars, subVars>>

\* What a registry step leaves alone, and what a retry step leaves alone.
notReg == <<retryVars, opVars, fnVars, subVars>>
notRetry == <<regVars, fnVars, subVars>>
notFn == <<regVars, retryVars, opVars, subVars>>

\* No subscription: state is where subscribe and its task are, conn whether
\* the pubsub connection is open, stream the messages that arrived and wait
\* in on_message(); three ghosts: received, the messages the loop took,
\* calls, the payloads the callback was invoked with, and answers, what the
\* callback returned. emit tells that the callback is the one of the
\* command subscribe_channel, which always returns true. Two more ghosts:
\* owner, the handle of the registry the subscription was started from, and
\* orphan, set when a message is handed to the callback while that handle
\* is no longer open.
NoSub ==
    [state |-> "none", conn |-> FALSE, stream |-> <<>>, received |-> <<>>,
     calls |-> <<>>, answers |-> <<>>, emit |-> FALSE, owner |-> None,
     orphan |-> FALSE]

\* The closure given to with_retry when no operation of the handle is
\* singled out.
NoReq == [op |-> "f", db |-> 0]

\* A key that the backend does not hold.
Nil == "nil"

\* A backend without keys: in each logical database a string key and a list
\* key, and in database 0 the key of a lock. ttl holds the databases whose
\* string key has an expiry (the lock always has one); manager_db is the
\* database selected on the manager connection of the handle. Two ghosts:
\* granted, the lock is held through a try_lock of the handle that was
\* answered; touched, a key expired or another client wrote during the call.
EmptyServer ==
    [str |-> [d \in 0..MaxDb |-> Nil],
     ttl |-> {},
     list |-> [d \in 0..MaxDb |-> <<>>],
     lock |-> Nil,
     granted |-> FALSE,
     manager_db |-> 0,
     touched |-> FALSE,
     ping |-> Nil]
NoInput == <<>>

\* No call of a function on its own is modelled.
FnOff ==
    /\ input = NoInput
    /\ output = Pending
    /\ libCalls = <<>>

\* No with_retry call is modelled.
RetryOff ==
    /\ selfCfg = DefaultConfig
    /\ rpc = "off"
    /\ attempts = U32(0)
    /\ skipped = U32(0)
    /\ history = <<>>
    /\ logs = <<>>
    /\ delays = <<>>
    /\ outcome = Pending
    /\ selfKind = "Standalone"
    /\ req = NoReq
    /\ backend = <<>>
    /\ server = EmptyServer
    /\ sub = NoSub

Snapshot == [services |-> services, store |-> store]

EmptyMap == [n \in Names |-> None]

\* Nothing remembered: no call is running.
NoSnapshot == [services |-> EmptyMap, store |-> EmptyMap]

\* A RedisService: its ConnectionKind, its config, and the identity of the
\* transport that all of its clones share.
Handle(kind, cfg, id) == [kind |-> kind, cfg |-> cfg, id |-> id]

\* Transport ids: one per handle that can be referenced at the same time.
IdPool == 1..(Cardinality(Names) + Cardinality(Procs) + MaxClones)

\* A fresh transport for a handle of this kind and config: the first id that
\* no open transport of the same kind and config has.
NewHandle(op, kind, cfg) ==
    LET free == {i \in IdPool : Handle(kind, cfg, i) \notin op}
    IN Handle(kind, cfg, CHOOSE i \in free : \A j \in free : i <= j)

\* A task that is not in a call. Besides the call's arguments (op, name, cfg),
\* locals (svc, configs, i, deleted) and result (res), a call records for the
\* properties: the names reload built (loaded) and skipped (failed), the entry
\* remove took out (removed), what the published map held when get read (seen),
\* and whether the write lock was held when the call began (busy).
NoCall ==
    [op |-> "none", name |-> NoName, cfg |-> DefaultConfig, svc |-> None,
     configs |-> <<>>, i |-> 0, deleted |-> FALSE, res |-> Pending,
     loaded |-> {}, failed |-> {}, removed |-> None, seen |-> None,
     busy |-> FALSE]

\* The transports some RedisService value still refers to: a transport is
\* released when its last handle is dropped.
Referenced(svcs, cls, calls) ==
    {svcs[n][1] : n \in {m \in Names : svcs[m] # None}}
        \cup {c.svc : c \in cls}
        \cup {calls[p].svc[1] : p \in {q \in Procs : calls[q].svc # None}}

Live(op, svcs, cls, calls) == op \cap Referenced(svcs, cls, calls)

\* map.get(name).cloned()
get_service(svcs, name) == svcs[name]

\* A get_service that reads the map without taking the read lock.
CanRead_Unlocked == TRUE

\* tokio RwLock: the write guard excludes every other guard. Read guards are
\* never held across a step, so only the write guard is state.
CanWrite == writer = NoProc
CanRead == writer = NoProc

\* The state before AppState::new: a database file with any rows of the
\* configs cfgs in it.
InitOver(cfgs) ==
    /\ RetryOff
    /\ FnOff
    /\ store \in [Names -> {ToJson(c) : c \in cfgs} \cup {NoRecord}]
    /\ services = EmptyMap
    /\ writer = NoProc
    /\ open = {}
    /\ clones = {}
    /\ pc = [p \in Procs |-> IF p = Boot THEN "reload_list" ELSE "idle"]
    /\ call = [p \in Procs |-> IF p = Boot
                               THEN [NoCall EXCEPT !.op = "new"]
                               ELSE NoCall]
    /\ ready = FALSE
    /\ committed = EmptyMap
    /\ pre = Snapshot

\* The call returns res to its caller.
Finish(p, c, res) ==
    /\ pc' = [pc EXCEPT ![p] = "ret"]
    /\ call' = [call EXCEPT ![p] = [c EXCEPT !.res = res]]

Begin(p, op, name, cfg, first) ==
    /\ ready
    /\ pc[p] = "idle"
    /\ pc' = [pc EXCEPT ![p] = first]
    /\ call' = [call EXCEPT ![p] = [NoCall EXCEPT !.op = op, !.name = name, !.cfg = cfg,
                                                  !.busy = writer # NoProc]]
    /\ UNCHANGED <<store, services, writer, open, clones, ready, committed, notReg>>

\* ------------------------------------------------- AppState::add_connection

StartAdd(p, cfgs) ==
    \E n \in Names, c \in cfgs : Begin(p, "add", n, c, "add_dial")

\* AddDial with the config saved before the dial is known to have succeeded.
AddDial_SaveFirst(p) ==
    /\ pc[p] = "add_dial"
    /\ store' = save_config(store, call[p].name, call[p].cfg)
    /\ \E lib \in LibOutcomes :
         LET r == RedisServiceNew(call[p].cfg, lib)
             svc == NewHandle(open, r.val, call[p].cfg)
         IN IF r.ok
            THEN /\ pc' = [pc EXCEPT ![p] = "add_save"]
                 /\ call' = [call EXCEPT ![p].svc = Some(svc)]
                 /\ open' = open \cup {svc}
            ELSE /\ Finish(p, call[p], Err("Failed to connect to Redis"))
                 /\ open' = open
    /\ UNCHANGED <<services, writer, clones, ready, committed, pre, notReg>>

\* RedisService::new(config.clone()).await.context(..)?
AddDial(p) ==
    /\ pc[p] = "add_dial"
    /\ \E lib \in LibOutcomes :
         LET r == RedisServiceNew(call[p].cfg, lib)
             svc == NewHandle(open, r.val, call[p].cfg)
         IN IF r.ok
            THEN /\ pc' = [pc EXCEPT ![p] = "add_save"]
                 /\ call' = [call EXCEPT ![p].svc = Some(svc)]
                 /\ open' = open \cup {svc}
            ELSE /\ Finish(p, call[p], Err("Failed to connect to Redis"))
                 /\ open' = open
    /\ UNCHANGED <<store, services, writer, clones, ready, committed, pre, notReg>>

\* AddSave with the store's error ignored: the insert follows anyway.
AddSave_IgnoreError(p) ==
    /\ pc[p] = "add_save"
    /\ \E db \in DbOutcomes :
         store' = IF db = "ok" THEN save_config(store, call[p].name, call[p].cfg) ELSE store
    /\ pc' = [pc EXCEPT ![p] = "add_insert"]
    /\ UNCHANGED <<services, writer, open, clones, call, ready, committed, pre, notReg>>

\* self.db.save_config(name, &config).await.context(..)?
\* On an error the function returns and svc is dropped.
AddSave(p) ==
    /\ pc[p] = "add_save"
    /\ \E db \in DbOutcomes :
         IF db = "ok"
         THEN /\ store' = save_config(store, call[p].name, call[p].cfg)
              /\ pc' = [pc EXCEPT ![p] = "add_insert"]
              /\ call' = call
         ELSE /\ store' = store
              /\ Finish(p, [call[p] EXCEPT !.svc = None], Err("Failed to save config to DB"))
    /\ open' = Live(open, services, clones, call')
    /\ UNCHANGED <<services, writer, clones, ready, committed, pre, notReg>>

\* let mut map = self.services.write().await; map.insert(name.to_string(), svc);
\* Ok(()) -- the guard is dropped on return. Nothing is awaited while the guard
\* is held, so taking the lock, the insert and the release are one step.
AddInsert(p) ==
    /\ pc[p] = "add_insert"
    /\ CanWrite
    /\ services' = [services EXCEPT ![call[p].name] = call[p].svc]
    /\ committed' = services'
    /\ Finish(p, [call[p] EXCEPT !.svc = None], Ok("added"))
    /\ open' = Live(open, services', clones, call')
    /\ UNCHANGED <<store, writer, clones, ready, pre, notReg>>

\* ---------------------------------------------- AppState::remove_connection

StartRemove(p) ==
    \E n \in Names : Begin(p, "remove", n, DefaultConfig, "remove_delete")

\* RemoveDelete with a missing row reported as an error.
RemoveDelete_MissingIsError(p) ==
    /\ pc[p] = "remove_delete"
    /\ \E db \in DbOutcomes :
         LET r == delete_config(store, call[p].name)
         IN IF db = "ok" /\ r.deleted
            THEN /\ store' = r.store
                 /\ pc' = [pc EXCEPT ![p] = "remove_entry"]
                 /\ call' = [call EXCEPT ![p].deleted = r.deleted]
            ELSE /\ store' = store
                 /\ Finish(p, call[p],
                           IF db = "ok" THEN Err("Config not found")
                           ELSE Err("Failed to delete config from DB"))
    /\ UNCHANGED <<services, writer, open, clones, ready, committed, pre, notReg>>

\* RemoveDelete that takes the entry out of the map before it returns the
\* error of the store.
RemoveDelete_ErrorDropsEntry(p) ==
    /\ pc[p] = "remove_delete"
    /\ \E db \in DbOutcomes :
         IF db = "ok"
         THEN LET r == delete_config(store, call[p].name)
              IN /\ store' = r.store
                 /\ pc' = [pc EXCEPT ![p] = "remove_entry"]
                 /\ call' = [call EXCEPT ![p].deleted = r.deleted]
                 /\ services' = services
         ELSE /\ store' = store
              /\ services' = [services EXCEPT ![call[p].name] = None]
              /\ Finish(p, call[p], Err("Failed to delete config from DB"))
    /\ UNCHANGED <<writer, open, clones, ready, committed, pre, notReg>>

\* let deleted = self.db.delete_config(name).await.context(..)?;
\* A missing row is only logged.
RemoveDelete(p) ==
    /\ pc[p] = "remove_delete"
    /\ \E db \in DbOutcomes :
         IF db = "ok"
         THEN LET r == delete_config(store, call[p].name)
              IN /\ store' = r.store
                 /\ pc' = [pc EXCEPT ![p] = "remove_entry"]
                 /\ call' = [call EXCEPT ![p].deleted = r.deleted]
         ELSE /\ store' = store
              /\ Finish(p, call[p], Err("Failed to delete config from DB"))
    /\ UNCHANGED <<services, writer, open, clones, ready, committed, pre, notReg>>

\* RemoveEntry without the map.remove: the entry stays registered.
RemoveEntry_KeepEntry(p) ==
    /\ pc[p] = "remove_entry"
    /\ CanWrite
    /\ Finish(p, call[p], Ok("removed"))
    /\ UNCHANGED <<store, services, writer, open, clones, ready, committed, pre, notReg>>

\* RemoveEntry closing the removed handle's transport, whoever else holds it.
RemoveEntry_ClosesTransport(p) ==
    /\ pc[p] = "remove_entry"
    /\ CanWrite
    /\ services' = [services EXCEPT ![call[p].name] = None]
    /\ committed' = services'
    /\ Finish(p, [call[p] EXCEPT !.removed = services[call[p].name]], Ok("removed"))
    /\ open' = open \ {services[n][1] : n \in {m \in {call[p].name} : services[m] # None}}
    /\ UNCHANGED <<store, writer, clones, ready, pre, notReg>>

\* let mut map = self.services.write().await; map.remove(name); Ok(())
\* -- the removed handle and the guard are dropped; one step, as in AddInsert.
RemoveEntry(p) ==
    /\ pc[p] = "remove_entry"
    /\ CanWrite
    /\ services' = [services EXCEPT ![call[p].name] = None]
    /\ committed' = services'
    /\ Finish(p, [call[p] EXCEPT !.removed = services[call[p].name]], Ok("removed"))
    /\ open' = Live(open, services', clones, call')
    /\ UNCHANGED <<store, writer, clones, ready, pre, notReg>>

\* ------------------------------------------------ AppState::reload_from_db

StartReload(p) == Begin(p, "reload", NoName, DefaultConfig, "reload_list")

\* ReloadList that clears the map before it returns the error of the store.
ReloadList_ErrorClears(p) ==
    /\ pc[p] = "reload_list"
    /\ \E db \in DbOutcomes :
         IF db = "ok"
         THEN /\ pc' = [pc EXCEPT ![p] = "reload_lock"]
              /\ call' = [call EXCEPT ![p].configs = list_configs(store)]
              /\ services' = services
         ELSE /\ services' = EmptyMap
              /\ Finish(p, call[p], Err("list configs"))
    /\ UNCHANGED <<store, writer, open, clones, ready, committed, pre, notReg>>

\* let configs = self.db.list_configs().await?;
ReloadList(p) ==
    /\ pc[p] = "reload_list"
    /\ \E db \in DbOutcomes :
         IF db = "ok"
         THEN /\ pc' = [pc EXCEPT ![p] = "reload_lock"]
              /\ call' = [call EXCEPT ![p].configs = list_configs(store)]
         ELSE Finish(p, call[p], Err("list configs"))
    /\ UNCHANGED <<store, services, writer, open, clones, ready, committed, pre, notReg>>

\* ReloadLock without the map.clear(): entries of the old map stay.
ReloadLock_NoClear(p) ==
    /\ pc[p] = "reload_lock"
    /\ CanWrite
    /\ IF Len(call[p].configs) = 0
       THEN /\ writer' = NoProc
            /\ Finish(p, call[p], Ok("ok"))
       ELSE /\ writer' = p
            /\ pc' = [pc EXCEPT ![p] = "reload_dial"]
            /\ call' = [call EXCEPT ![p].i = 1]
    /\ UNCHANGED <<store, services, open, clones, ready, committed, pre, notReg>>

\* ReloadLock whose map.clear() also ends the subscription loops.
ReloadLock_EndsSubscriptions(p) ==
    /\ pc[p] = "reload_lock"
    /\ CanWrite
    /\ services' = EmptyMap
    /\ IF Len(call[p].configs) = 0
       THEN /\ writer' = NoProc
            /\ committed' = services'
            /\ Finish(p, call[p], Ok("ok"))
       ELSE /\ writer' = p
            /\ committed' = committed
            /\ pc' = [pc EXCEPT ![p] = "reload_dial"]
            /\ call' = [call EXCEPT ![p].i = 1]
    /\ open' = Live(open, services', clones, call')
    /\ sub' = IF sub.state = "loop"
              THEN [sub EXCEPT !.state = "ended", !.conn = FALSE]
              ELSE sub
    /\ UNCHANGED <<store, clones, ready, pre, retryVars, opVars, fnVars>>

\* let mut map = self.services.write().await; map.clear();
\* With no config to load the loop body never runs and the function returns.
ReloadLock(p) ==
    /\ pc[p] = "reload_lock"
    /\ CanWrite
    /\ services' = EmptyMap
    /\ IF Len(call[p].configs) = 0
       THEN /\ writer' = NoProc
            /\ committed' = services'
            /\ Finish(p, call[p], Ok("ok"))
       ELSE /\ writer' = p
            /\ committed' = committed
            /\ pc' = [pc EXCEPT ![p] = "reload_dial"]
            /\ call' = [call EXCEPT ![p].i = 1]
    /\ open' = Live(open, services', clones, call')
    /\ UNCHANGED <<store, clones, ready, pre, notReg>>

\* ReloadDial whose loop ends at the first config that fails to dial.
ReloadDial_StopsAtFailure(p) ==
    /\ pc[p] = "reload_dial"
    /\ \E lib \in LibOutcomes :
         LET c == call[p]
             name == c.configs[c.i][1]
             cfg == c.configs[c.i][2]
             r == RedisServiceNew(cfg, lib)
             svc == NewHandle(open, r.val, cfg)
             last == c.i = Len(c.configs) \/ ~r.ok
             c2 == [c EXCEPT !.i = c.i + 1,
                             !.loaded = IF r.ok THEN c.loaded \cup {name} ELSE c.loaded,
                             !.failed = IF r.ok THEN c.failed ELSE c.failed \cup {name}]
         IN /\ services' = IF r.ok
                           THEN [services EXCEPT ![name] = Some(svc)]
                           ELSE services
            /\ IF last
               THEN /\ writer' = NoProc
                    /\ committed' = services'
                    /\ Finish(p, c2, Ok("ok"))
               ELSE /\ writer' = writer
                    /\ committed' = committed
                    /\ pc' = pc
                    /\ call' = [call EXCEPT ![p] = c2]
            /\ open' = Live(IF r.ok THEN open \cup {svc} ELSE open, services', clones, call')
    /\ UNCHANGED <<store, clones, ready, pre, notReg>>

\* ReloadDial that returns without dropping the write guard.
ReloadDial_KeepsGuard(p) ==
    /\ pc[p] = "reload_dial"
    /\ \E lib \in LibOutcomes :
         LET c == call[p]
             name == c.configs[c.i][1]
             cfg == c.configs[c.i][2]
             r == RedisServiceNew(cfg, lib)
             svc == NewHandle(open, r.val, cfg)
             last == c.i = Len(c.configs)
             c2 == [c EXCEPT !.i = c.i + 1,
                             !.loaded = IF r.ok THEN c.loaded \cup {name} ELSE c.loaded,
                             !.failed = IF r.ok THEN c.failed ELSE c.failed \cup {name}]
         IN /\ services' = IF r.ok
                           THEN [services EXCEPT ![name] = Some(svc)]
                           ELSE services
            /\ IF last
               THEN /\ writer' = writer
                    /\ committed' = services'
                    /\ Finish(p, c2, Ok("ok"))
               ELSE /\ writer' = writer
                    /\ committed' = committed
                    /\ pc' = pc
                    /\ call' = [call EXCEPT ![p] = c2]
            /\ open' = Live(IF r.ok THEN open \cup {svc} ELSE open, services', clones, call')
    /\ UNCHANGED <<store, clones, ready, pre, notReg>>

\* One turn of `for (name, cfg) in configs`: RedisService::new(cfg).await,
\* then map.insert on Ok and an error log on Err. After the last turn the
\* function returns Ok(()) and the guard is dropped.
ReloadDial(p) ==
    /\ pc[p] = "reload_dial"
    /\ \E lib \in LibOutcomes :
         LET c == call[p]
             name == c.configs[c.i][1]
             cfg == c.configs[c.i][2]
             r == RedisServiceNew(cfg, lib)
             svc == NewHandle(open, r.val, cfg)
             last == c.i = Len(c.configs)
             c2 == [c EXCEPT !.i = c.i + 1,
                             !.loaded = IF r.ok THEN c.loaded \cup {name} ELSE c.loaded,
                             !.failed = IF r.ok THEN c.failed ELSE c.failed \cup {name}]
         IN /\ services' = IF r.ok
                           THEN [services EXCEPT ![name] = Some(svc)]
                           ELSE services
            /\ IF last
               THEN /\ writer' = NoProc
                    /\ committed' = services'
                    /\ Finish(p, c2, Ok("ok"))
               ELSE /\ writer' = writer
                    /\ committed' = committed
                    /\ pc' = pc
                    /\ call' = [call EXCEPT ![p] = c2]
            /\ open' = Live(IF r.ok THEN open \cup {svc} ELSE open, services', clones, call')
    /\ UNCHANGED <<store, clones, ready, pre, notReg>>

\* --------------------------------------------------- AppState::get_service

StartGet(p) ==
    \E n \in Names : Begin(p, "get", n, DefaultConfig, "get_read")

\* let map = self.services.read().await; map.get(name).cloned()
\* -- the read guard is dropped on return; nothing is awaited while it is held,
\* so the read lock is never seen held between steps.
\* seen records what the last published map holds under the name.
GetRead(p) ==
    /\ pc[p] = "get_read"
    /\ CanRead
    /\ Finish(p, [call[p] EXCEPT !.svc = get_service(services, call[p].name),
                                 !.seen = committed[call[p].name]], Ok("ok"))
    /\ UNCHANGED <<store, services, writer, open, clones, ready, committed, pre, notReg>>

\* ------------------------------------------------------------ the callers

\* The caller takes the result and drops what the call returned. A successful
\* AppState::new hands the state to the application (handle.manage(state)).
Return(p) ==
    /\ pc[p] = "ret"
    /\ pc' = [pc EXCEPT ![p] = "idle"]
    /\ call' = [call EXCEPT ![p] = NoCall]
    /\ ready' = (ready \/ (call[p].op = "new" /\ call[p].res.ok))
    /\ open' = Live(open, services, clones, call')
    /\ pre' = NoSnapshot
    /\ UNCHANGED <<store, services, writer, clones, committed, notReg>>

\* The caller of get_service keeps the clone it was given.
Keep(p) ==
    /\ pc[p] = "ret"
    /\ call[p].op = "get"
    /\ call[p].svc # None
    /\ Cardinality(clones) < MaxClones
    /\ clones' = clones \cup {[svc |-> call[p].svc[1]]}
    /\ pc' = [pc EXCEPT ![p] = "idle"]
    /\ call' = [call EXCEPT ![p] = NoCall]
    /\ pre' = NoSnapshot
    /\ UNCHANGED <<store, services, writer, open, ready, committed, notReg>>

\* A caller drops a clone it kept.
DropClone ==
    /\ \E c \in clones : clones' = clones \ {c}
    /\ open' = Live(open, services, clones', call)
    /\ UNCHANGED <<store, services, writer, pc, call, ready, committed, pre, notReg>>

\* ------------------------------------------------------- specifications

\* One task issues every call, each after the one before it has returned.
Alone(p) == p = Boot /\ \A q \in Procs \ {p} : pc[q] = "idle"

\* A call that starts when no other call is running; the state it starts in
\* is remembered.
SeqStart(p) == Alone(p) /\ pre' = Snapshot

\* Calls that do not overlap: each returns before the next one starts.
NextSeq ==
    \/ \E p \in Procs :
         \/ StartAdd(p, Configs) /\ SeqStart(p)
         \/ StartRemove(p) /\ SeqStart(p)
         \/ StartReload(p) /\ SeqStart(p)
         \/ StartGet(p) /\ SeqStart(p)
         \/ AddDial(p) \/ AddSave(p) \/ AddInsert(p)
         \/ RemoveDelete(p) \/ RemoveEntry(p)
         \/ ReloadList(p) \/ ReloadLock(p) \/ ReloadDial(p)
         \/ GetRead(p)
         \/ Return(p) \/ Keep(p)
    \/ DropClone

InitSeq == InitOver(Configs)

SpecSeq == InitSeq /\ [][NextSeq]_vars

\* Calls of different tasks interleaved at their await points. The races are
\* between calls, not between configs: the tasks use one config.
RaceConfigs == {CfgLocal}

Init == InitOver(RaceConfigs)

Next ==
    \E p \in Procs :
         \/ StartAdd(p, RaceConfigs) /\ UNCHANGED pre
         \/ StartRemove(p) /\ UNCHANGED pre
         \/ StartReload(p) /\ UNCHANGED pre
         \/ StartGet(p) /\ UNCHANGED pre
         \/ AddDial(p) \/ AddSave(p) \/ AddInsert(p)
         \/ RemoveDelete(p) \/ RemoveEntry(p)
         \/ ReloadList(p) \/ ReloadLock(p) \/ ReloadDial(p)
         \/ GetRead(p)
         \/ Return(p)

Spec == Init /\ [][Next]_vars

\* Every dial and every call of the store returns (weak fairness of the
\* steps that wait for nothing else), and the lock is fair: a task that
\* asks for the guard again and again gets it (strong fairness of the steps
\* that take it). A caller takes what its call returned.
Fairness ==
    \A p \in Procs :
        /\ WF_vars(AddDial(p)) /\ WF_vars(AddSave(p)) /\ SF_vars(AddInsert(p))
        /\ WF_vars(RemoveDelete(p)) /\ SF_vars(RemoveEntry(p))
        /\ WF_vars(ReloadList(p)) /\ SF_vars(ReloadLock(p)) /\ WF_vars(ReloadDial(p))
        /\ SF_vars(GetRead(p))
        /\ WF_vars(Return(p))

\* The calls of Next on one name, from a store with no other name.
InitLive == Init /\ \A n \in Names \ {NameSeq[1]} : store[n] = NoRecord

NextLive ==
    \E p \in Procs :
         \/ StartAdd(p, RaceConfigs) /\ call'[p].name = NameSeq[1] /\ UNCHANGED pre
         \/ StartRemove(p) /\ call'[p].name = NameSeq[1] /\ UNCHANGED pre
         \/ StartReload(p) /\ UNCHANGED pre
         \/ StartGet(p) /\ call'[p].name = NameSeq[1] /\ UNCHANGED pre
         \/ AddDial(p) \/ AddSave(p) \/ AddInsert(p)
         \/ RemoveDelete(p) \/ RemoveEntry(p)
         \/ ReloadList(p) \/ ReloadLock(p) \/ ReloadDial(p)
         \/ GetRead(p)
         \/ Return(p)

SpecLive == InitLive /\ [][NextLive]_vars /\ Fairness

\* Concurrent calls of add_connection with any of Configs, after the reload
\* of the start.
NextAdds ==
    \E p \in Procs :
         \/ StartAdd(p, Configs) /\ UNCHANGED pre
         \/ AddDial(p) \/ AddSave(p) \/ AddInsert(p)
         \/ ReloadList(p) \/ ReloadLock(p) \/ ReloadDial(p)
         \/ Return(p)

SpecAdds == Init /\ [][NextAdds]_vars

\* ------------------------------------------------ the commands (lib.rs)

\* The commands that look a handle up by name, and the operation of the
\* handle each of them runs.
HandlerOp ==
    [check_connection |-> "check_health", get_value |-> "get", set_value |-> "set",
     del_key |-> "del", mget_values |-> "mget", mset_values |-> "mset",
     publish_message |-> "publish", subscribe_channel |-> "subscribe",
     try_lock |-> "try_lock", unlock |-> "unlock", persist_key |-> "persist",
     expire_key |-> "expire", scan_keys |-> "scan", get_db_size |-> "dbsize",
     ttl_key |-> "ttl", get_cluster_info |-> "get_cluster_nodes",
     get_type |-> "get_type", hgetall_hash |-> "hgetall", hset_field |-> "hset",
     hdel_field |-> "hdel", lpush_list |-> "lpush", rpop_list |-> "rpop",
     lrange_list |-> "lrange", sadd_set |-> "sadd", smembers_set |-> "smembers",
     srem_set |-> "srem", zadd_zset |-> "zadd", zrem_zset |-> "zrem",
     zrange_zset |-> "zrange_withscores", json_get_value |-> "json_get",
     json_set_value |-> "json_set"]

HandleCmds == DOMAIN HandlerOp

\* The commands that take the name of a connection.
NamedCmds == HandleCmds \cup {"service_exists", "add_connection", "remove_connection"}

\* An invocation of a command by the frontend.
Invocations ==
    {[cmd |-> c, name |-> n] : c \in NamedCmds, n \in Names}
        \cup {[cmd |-> "reload_services", name |-> NoName]}

\* What an invocation returns to the frontend: Ok(CommandResponse::ok(data)),
\* Ok(CommandResponse::err(code, message)), or Err(InvokeError) for an error
\* that `?` returned from inner. absent is a ghost: the name was not in the
\* registry when the command looked at it.
ResponseOk(data, absent) ==
    [kind |-> "response", success |-> TRUE, code |-> "OK", data |-> data, absent |-> absent]
ResponseErr(code, absent) ==
    [kind |-> "response", success |-> FALSE, code |-> code, data |-> "None",
     absent |-> absent]
InvokeError(absent) ==
    [kind |-> "fault", success |-> FALSE, code |-> "-", data |-> "None", absent |-> absent]

\* The frontend invokes a command; one command runs at a time.
Invoke ==
    /\ ready
    /\ pc[Boot] = "idle"
    /\ input = NoInput
    /\ input' \in Invocations
    /\ UNCHANGED <<output, libCalls, notFn>>

\* The command invoked is one of cmds and has not called into the state yet.
Invoked(cmds) == input # NoInput /\ output = Pending /\ input.cmd \in cmds

\* state.get_service(&name) of a command of HandleCmds.
HandlerLookup ==
    /\ Invoked(HandleCmds)
    /\ StartGet(Boot)
    /\ call'[Boot].name = input.name
    /\ SeqStart(Boot)

\* state.add_connection(&name, config) of add_connection.
HandlerAdd ==
    /\ Invoked({"add_connection"})
    /\ StartAdd(Boot, RaceConfigs)
    /\ call'[Boot].name = input.name
    /\ SeqStart(Boot)

\* state.remove_connection(&name) of remove_connection.
HandlerRemove ==
    /\ Invoked({"remove_connection"})
    /\ StartRemove(Boot)
    /\ call'[Boot].name = input.name
    /\ SeqStart(Boot)

\* state.reload_from_db() of reload_services.
HandlerReload ==
    /\ Invoked({"reload_services"})
    /\ StartReload(Boot)
    /\ SeqStart(Boot)

\* service_exists: map.contains_key(&name) under the read lock, answered
\* with OK either way.
ServiceExists ==
    /\ Invoked({"service_exists"})
    /\ pc[Boot] = "idle"
    /\ CanRead
    /\ output' = ResponseOk(IF services[input.name] # None THEN "true" ELSE "false",
                            services[input.name] = None)
    /\ UNCHANGED <<input, libCalls, notFn>>

\* How the rest of a command of HandleCmds can go once it has the handle:
\* the operation succeeds, or it fails; json_set_value can fail before it,
\* parsing value_json.
HandlerOutcomes(cmd) ==
    LibOutcomes \cup (IF cmd = "json_set_value" THEN {"parse"} ELSE {})

\* The name was not in the registry when the call into the state started.
WasAbsent(name) == name \in Names /\ pre.services[name] = None

\* Reply that turns a name that is not registered into an error of inner.
Reply_AbsentIsFault ==
    /\ pc[Boot] = "ret"
    /\ input # NoInput
    /\ output = Pending
    /\ IF input.cmd \in HandleCmds
       THEN IF call[Boot].svc = None
            THEN /\ output' = InvokeError(TRUE)
                 /\ libCalls' = <<>>
            ELSE \E r \in HandlerOutcomes(input.cmd) :
                   /\ libCalls' = IF r = "parse" THEN <<>> ELSE <<HandlerOp[input.cmd]>>
                   /\ output' = IF r = "ok"
                                 THEN ResponseOk(input.cmd, FALSE)
                                 ELSE InvokeError(FALSE)
       ELSE /\ output' = IF call[Boot].res.ok
                         THEN ResponseOk(input.cmd, WasAbsent(input.name))
                         ELSE InvokeError(WasAbsent(input.name))
            /\ libCalls' = <<>>
    /\ UNCHANGED <<input, notFn>>

\* The end of inner and map_err(InvokeError::from_anyhow). A command of
\* HandleCmds answers NOT_FOUND for None, and otherwise runs its operation
\* on the handle: OK, or the error through `?`. The other commands answer OK
\* or pass the error of the state's function through `?`.
Reply ==
    /\ pc[Boot] = "ret"
    /\ input # NoInput
    /\ output = Pending
    /\ IF input.cmd \in HandleCmds
       THEN IF call[Boot].svc = None
            THEN /\ output' = ResponseErr("NOT_FOUND", TRUE)
                 /\ libCalls' = <<>>
            ELSE \E r \in HandlerOutcomes(input.cmd) :
                   /\ libCalls' = IF r = "parse" THEN <<>> ELSE <<HandlerOp[input.cmd]>>
                   /\ output' = IF r = "ok"
                                 THEN ResponseOk(input.cmd, FALSE)
                                 ELSE InvokeError(FALSE)
       ELSE /\ output' = IF call[Boot].res.ok
                         THEN ResponseOk(input.cmd, WasAbsent(input.name))
                         ELSE InvokeError(WasAbsent(input.name))
            /\ libCalls' = <<>>
    /\ UNCHANGED <<input, notFn>>

\* inner returns: the handle the command was given is dropped.
Returns ==
    /\ input = NoInput \/ output # Pending
    /\ Return(Boot)

\* The frontend has the answer.
Answered ==
    /\ pc[Boot] = "idle"
    /\ input # NoInput
    /\ output # Pending
    /\ input' = NoInput
    /\ output' = Pending
    /\ libCalls' = <<>>
    /\ UNCHANGED notFn

NextRpc ==
    \/ Invoke
    \/ HandlerLookup \/ HandlerAdd \/ HandlerRemove \/ HandlerReload
    \/ ServiceExists
    \/ AddDial(Boot) \/ AddSave(Boot) \/ AddInsert(Boot)
    \/ RemoveDelete(Boot) \/ RemoveEntry(Boot)
    \/ ReloadList(Boot) \/ ReloadLock(Boot) \/ ReloadDial(Boot)
    \/ GetRead(Boot)
    \/ Reply \/ Returns \/ Answered

InitRpc == InitOver(RaceConfigs)

SpecRpc == InitRpc /\ [][NextRpc]_vars

\* The commands that call the store and nothing else of the state.
StoreCmds == {"save_config", "delete_config"}

\* An invocation of one of them by the frontend.
StoreInvocations ==
    {[cmd |-> "save_config", name |-> n, cfg |-> c] : n \in Names, c \in RaceConfigs}
        \cup {[cmd |-> "delete_config", name |-> n, cfg |-> DefaultConfig] : n \in Names}

\* The frontend invokes save_config or delete_config.
InvokeStore ==
    /\ ready
    /\ pc[Boot] = "idle"
    /\ input = NoInput
    /\ input' \in StoreInvocations
    /\ UNCHANGED <<output, libCalls, notFn>>

\* The command save_config: state.db.save_config(&name, &config).await?,
\* then CommandResponse::ok(true).
SaveConfigCmd ==
    /\ Invoked({"save_config"})
    /\ pc[Boot] = "idle"
    /\ \E db \in DbOutcomes :
         /\ store' = IF db = "ok" THEN save_config(store, input.name, input.cfg)
                     ELSE store
         /\ output' = IF db = "ok"
                       THEN ResponseOk("true", services[input.name] = None)
                       ELSE InvokeError(services[input.name] = None)
    /\ UNCHANGED <<input, libCalls, services, writer, open, clones, pc, call, ready,
                   committed, pre, retryVars, opVars, subVars>>

\* delete_config that also takes the entry of the name out of the registry.
DeleteConfigCmd_RemovesEntry ==
    /\ Invoked({"delete_config"})
    /\ pc[Boot] = "idle"
    /\ \E db \in DbOutcomes :
         LET r == delete_config(store, input.name)
         IN /\ store' = IF db = "ok" THEN r.store ELSE store
            /\ services' = IF db = "ok" THEN [services EXCEPT ![input.name] = None]
                           ELSE services
            /\ output' = IF db = "ok"
                          THEN ResponseOk(IF r.deleted THEN "true" ELSE "false",
                                          services[input.name] = None)
                          ELSE InvokeError(services[input.name] = None)
    /\ UNCHANGED <<input, libCalls, writer, open, clones, pc, call, ready,
                   committed, pre, retryVars, opVars, subVars>>

\* The command delete_config: let ok = state.db.delete_config(&name).await?,
\* then CommandResponse::ok(ok).
DeleteConfigCmd ==
    /\ Invoked({"delete_config"})
    /\ pc[Boot] = "idle"
    /\ \E db \in DbOutcomes :
         LET r == delete_config(store, input.name)
         IN /\ store' = IF db = "ok" THEN r.store ELSE store
            /\ output' = IF db = "ok"
                          THEN ResponseOk(IF r.deleted THEN "true" ELSE "false",
                                          services[input.name] = None)
                          ELSE InvokeError(services[input.name] = None)
    /\ UNCHANGED <<input, libCalls, services, writer, open, clones, pc, call, ready,
                   committed, pre, retryVars, opVars, subVars>>

\* The commands of SpecRpc and the two commands of the store.
NextCfg == NextRpc \/ InvokeStore \/ SaveConfigCmd \/ DeleteConfigCmd

SpecCfg == InitRpc /\ [][NextCfg]_vars

\* ------------------------------------ the operations of a RedisService

\* No registry is modelled.
RegistryOff ==
    /\ store = EmptyMap
    /\ services = EmptyMap
    /\ writer = NoProc
    /\ open = {}
    /\ clones = {}
    /\ pc = [p \in Procs |-> "idle"]
    /\ call = [p \in Procs |-> NoCall]
    /\ ready = FALSE
    /\ committed = EmptyMap
    /\ pre = NoSnapshot

\* A sentinel deployment.
CfgSentinel ==
    [DefaultConfig EXCEPT !.sentinel = TRUE,
                          !.sentinel_master_name = Some(<<"mymaster">>),
                          !.sentinel_urls = <<RedisScheme \o <<HostText>>>>]

\* The operations that take a db argument.
DbOps ==
    {"scan", "dbsize", "persist", "get_type", "set_json", "get_json", "set",
     "get", "del", "exists", "expire", "ttl", "key_type", "hset", "hdel",
     "hget", "hmset", "hgetall", "lpush", "rpop", "lrange", "sadd",
     "smembers", "srem", "zadd", "zrem", "zrange_withscores", "json_set",
     "json_get"}

\* The operations that read the layout of a cluster, and the command each
\* sends.
ClusterOnlyOps == {"get_cluster_nodes", "cluster_nodes", "cluster_slots"}
ClusterCmd(op) == IF op = "cluster_slots" THEN "CLUSTER SLOTS" ELSE "CLUSTER NODES"

\* The operations of the lock; they take no db and run on database 0.
LockOps == {"try_lock", "unlock"}

Requests ==
    {[op |-> o, db |-> d] : o \in DbOps, d \in 0..MaxDb}
        \cup {[op |-> o, db |-> 0] : o \in ClusterOnlyOps}

\* What the network does to one evaluation of the closure: it serves it, it
\* lets no connection be opened, or it fails the command.
NetOutcomes == {"ok", "no_connection", "error"}

Mismatch == Err("Cluster mode does not support multiple databases")

\* The command sent on the multiplexed connection of the handle
\* (manager.clone()); a network that fails fails the command.
OnManager(cmd, net) ==
    [res |-> IF net = "ok" THEN Ok(cmd) ELSE Err("io"),
     io |-> <<[conn |-> "manager", cmd |-> cmd]>>]

\* OnOwnConnection that never sends SELECT.
OnOwnConnection_NoSelect(db, cmd, net) ==
    LET opened == <<[conn |-> "own", cmd |-> "get_connection"]>>
    IN IF net = "no_connection"
       THEN [res |-> Err("connect"), io |-> opened]
       ELSE [res |-> IF net = "ok" THEN Ok(cmd) ELSE Err("io"),
             io |-> opened \o <<[conn |-> "own", cmd |-> cmd]>>]

\* spawn_blocking: a connection of its own from client.get_connection(),
\* SELECT db on it when db is not 0, then the command.
OnOwnConnection(db, cmd, net) ==
    LET opened == <<[conn |-> "own", cmd |-> "get_connection"]>>
        selected == IF db = 0 THEN <<>> ELSE <<[conn |-> "own", cmd |-> "SELECT"]>>
    IN IF net = "no_connection"
       THEN [res |-> Err("connect"), io |-> opened]
       ELSE [res |-> IF net = "ok" THEN Ok(cmd) ELSE Err("io"),
             io |-> opened \o selected \o <<[conn |-> "own", cmd |-> cmd]>>]

\* What ping sends: conn.set("__ping__", "1") on Standalone, PING on Cluster.
PingCmd(kind) == IF kind = "Standalone" THEN "SET __ping__" ELSE "PING"

\* Dispatch whose Cluster arm has no check of db.
Dispatch_NoDbCheck(kind, r, net) ==
    IF r.op = "ping"
    THEN IF kind = "Standalone" THEN OnManager(PingCmd(kind), net)
         ELSE OnOwnConnection(0, PingCmd(kind), net)
    ELSE IF r.op \in DbOps
    THEN IF kind = "Standalone"
         THEN IF r.db = 0 THEN OnManager(r.op, net)
              ELSE OnOwnConnection(r.db, r.op, net)
         ELSE OnOwnConnection(0, r.op, net)
    ELSE IF r.op \in LockOps
    THEN IF kind = "Standalone" THEN OnManager(r.op, net)
         ELSE OnOwnConnection(0, r.op, net)
    ELSE IF kind = "Standalone"
         THEN IF r.op = "get_cluster_nodes"
              THEN [res |-> Ok("[]"), io |-> <<>>]
              ELSE OnManager(ClusterCmd(r.op), net)
         ELSE OnOwnConnection(0, ClusterCmd(r.op), net)

\* Dispatch whose Standalone arm sends SELECT db and the command on the
\* manager when db is not 0.
Dispatch_SelectOnManager(kind, r, net) ==
    IF r.op = "ping"
    THEN IF kind = "Standalone" THEN OnManager(PingCmd(kind), net)
         ELSE OnOwnConnection(0, PingCmd(kind), net)
    ELSE IF r.op \in DbOps
    THEN IF kind = "Standalone"
         THEN IF r.db = 0 THEN OnManager(r.op, net)
              ELSE [res |-> OnManager(r.op, net).res,
                    io |-> <<[conn |-> "manager", cmd |-> "SELECT"]>>
                           \o OnManager(r.op, net).io]
         ELSE IF r.db # 0 THEN [res |-> Mismatch, io |-> <<>>]
              ELSE OnOwnConnection(0, r.op, net)
    ELSE IF r.op \in LockOps
    THEN IF kind = "Standalone" THEN OnManager(r.op, net)
         ELSE OnOwnConnection(0, r.op, net)
    ELSE IF kind = "Standalone"
         THEN IF r.op = "get_cluster_nodes"
              THEN [res |-> Ok("[]"), io |-> <<>>]
              ELSE OnManager(ClusterCmd(r.op), net)
         ELSE OnOwnConnection(0, ClusterCmd(r.op), net)

\* One evaluation of the closure an operation gives to with_retry, the
\* `match &self.kind` in it: its result and what it did to the backend.
\* A db operation on Standalone uses the manager for db 0 and a connection
\* of its own otherwise; on Cluster it fails for a db other than 0 before
\* anything else. get_cluster_nodes on Standalone answers an empty list;
\* cluster_nodes and cluster_slots on Standalone send their command.
\* try_lock and unlock use the manager on Standalone and a connection of
\* their own on Cluster, and so does ping.
Dispatch(kind, r, net) ==
    IF r.op = "ping"
    THEN IF kind = "Standalone" THEN OnManager(PingCmd(kind), net)
         ELSE OnOwnConnection(0, PingCmd(kind), net)
    ELSE IF r.op \in DbOps
    THEN IF kind = "Standalone"
         THEN IF r.db = 0 THEN OnManager(r.op, net)
              ELSE OnOwnConnection(r.db, r.op, net)
         ELSE IF r.db # 0 THEN [res |-> Mismatch, io |-> <<>>]
              ELSE OnOwnConnection(0, r.op, net)
    ELSE IF r.op \in LockOps
    THEN IF kind = "Standalone" THEN OnManager(r.op, net)
         ELSE OnOwnConnection(0, r.op, net)
    ELSE IF kind = "Standalone"
         THEN IF r.op = "get_cluster_nodes"
              THEN [res |-> Ok("[]"), io |-> <<>>]
              ELSE OnManager(ClusterCmd(r.op), net)
         ELSE OnOwnConnection(0, ClusterCmd(r.op), net)

\* ------------------------------------------------------------ the backend

\* The values written and the tokens of the lock.
Values == {"v1", "v2"}
Tokens == {"A", "B"}

\* The operations whose command is followed into the backend.
StringOps == {"set", "get", "del", "exists"}
ListOps == {"lpush", "rpop"}
AdminOps == {"ping"}
TtlOps == {"expire"}
DataOps == StringOps \cup ListOps \cup LockOps \cup AdminOps \cup TtlOps

\* A u64 as four 16-bit limbs, the most significant first; the seconds
\* expire is called with: 0, 60, 2^32, 2^63 and u64::MAX.
U64Zero == <<0, 0, 0, 0>>
U64Max == <<Half - 1, Half - 1, Half - 1, Half - 1>>
Seconds == {U64Zero, <<0, 0, 0, 60>>, <<0, 1, 0, 0>>, <<Half \div 2, 0, 0, 0>>, U64Max}

\* i64::try_from(seconds): the same number when it is at most i64::MAX, the
\* sign bit clear, and a TryFromIntError otherwise.
I64TryFrom(u) == IF u[1] < Half \div 2 THEN Ok(u) ELSE Err("TryFromIntError")

\* The closure of the request panics before it sends anything: in expire the
\* unwrap() of i64::try_from(seconds), which the cluster arm reaches only
\* after its check of db.
ClosurePanics(kind, r) ==
    /\ r.op \in TtlOps
    /\ "seconds" \in DOMAIN r
    /\ ~(kind = "Cluster" /\ r.db # 0)
    /\ ~I64TryFrom(r.seconds).ok

\* unlock whose script deletes the key without comparing its value.
UnlockScript_NoCompare(s, token) ==
    [server |-> [s EXCEPT !.lock = Nil], reply |-> s.lock # Nil]

\* The script of unlock, evaluated by the backend in one piece:
\* if redis.call("get", KEYS[1]) == ARGV[1] then return redis.call("del",
\* KEYS[1]) else return 0 end; and Ok(n > 0).
UnlockScript(s, token) ==
    IF s.lock = token
    THEN [server |-> [s EXCEPT !.lock = Nil], reply |-> TRUE]
    ELSE [server |-> s, reply |-> FALSE]

\* The command of request r executed by the backend s in database d: the
\* backend afterwards and the value the closure makes of the reply.
\* set is SET (SETEX with an expiry), get GET, del DEL and exists EXISTS with
\* n > 0, lpush LPUSH, rpop RPOP, try_lock SET resource token NX PX ttl,
\* expire EXPIRE key sec (an expiry of 0 seconds deletes the key);
\* the two commands of ping: SET __ping__ 1, for which the closure answers
\* "PONG", and PING.
Exec(s, d, r) ==
    CASE r.op = "set" ->
           [server |-> [s EXCEPT !.str[d] = r.val,
                                 !.ttl = IF r.exp THEN @ \cup {d} ELSE @ \ {d}],
            reply |-> "()"]
      [] r.op = "get" ->
           [server |-> s, reply |-> IF s.str[d] = Nil THEN "None" ELSE s.str[d]]
      [] r.op = "del" ->
           [server |-> [s EXCEPT !.str[d] = Nil, !.ttl = @ \ {d}],
            reply |-> s.str[d] # Nil]
      [] r.op = "exists" ->
           [server |-> s, reply |-> s.str[d] # Nil]
      [] r.op = "lpush" ->
           [server |-> [s EXCEPT !.list[d] = <<r.val>> \o @],
            reply |-> Len(s.list[d]) + 1]
      [] r.op = "rpop" ->
           IF s.list[d] = <<>>
           THEN [server |-> s, reply |-> "None"]
           ELSE [server |-> [s EXCEPT !.list[d] = SubSeq(@, 1, Len(@) - 1)],
                 reply |-> s.list[d][Len(s.list[d])]]
      [] r.op = "try_lock" ->
           IF s.lock = Nil
           THEN [server |-> [s EXCEPT !.lock = r.val], reply |-> "OK"]
           ELSE [server |-> s, reply |-> "None"]
      [] r.op = "unlock" -> UnlockScript(s, r.val)
      [] r.op = "expire" ->
           IF s.str[d] = Nil
           THEN [server |-> s, reply |-> FALSE]
           ELSE IF I64TryFrom(r.seconds).ok /\ I64TryFrom(r.seconds).val = U64Zero
           THEN [server |-> [s EXCEPT !.str[d] = Nil, !.ttl = @ \ {d}], reply |-> TRUE]
           ELSE [server |-> [s EXCEPT !.ttl = @ \cup {d}], reply |-> TRUE]
      [] r.op = "SET __ping__" -> [server |-> [s EXCEPT !.ping = "1"], reply |-> "PONG"]
      [] r.op = "PING" -> [server |-> s, reply |-> "PONG"]

\* What the network does to one evaluation of a closure whose command is
\* followed into the backend: as NetOutcomes, and the command can be
\* executed and its reply lost.
DataOutcomes == NetOutcomes \cup {"reply_lost"}

\* One evaluation of the closure of request r on the backend s: Dispatch
\* decides the connection and what is sent on it. A SELECT on the manager
\* connection changes its database for good; a connection of its own starts
\* in database 0 and is in database db after SELECT db; the command runs in
\* the database of its connection, and it runs if the network delivered it.
Evaluate(s, kind, r, net) ==
    LET d == Dispatch(kind, [op |-> r.op, db |-> r.db],
                      IF net = "reply_lost" THEN "error" ELSE net)
        onManager == {k \in 1..Len(d.io) : d.io[k].conn = "manager"}
        selected == \E k \in onManager : d.io[k].cmd = "SELECT"
        s1 == IF selected THEN [s EXCEPT !.manager_db = r.db] ELSE s
        ownSelected == \E k \in 1..Len(d.io) :
                          d.io[k].conn = "own" /\ d.io[k].cmd = "SELECT"
        db == IF onManager # {} THEN s1.manager_db
              ELSE IF ownSelected THEN r.db ELSE 0
        ran == net \in {"ok", "reply_lost"} /\ d.io # <<>>
        x == Exec(s1, db, IF r.op = "ping" THEN [r EXCEPT !.op = PingCmd(kind)] ELSE r)
        answered == r.op = "try_lock" /\ net = "ok" /\ s1.lock = Nil
    IN [res |-> IF d.res.ok THEN Ok(x.reply) ELSE d.res,
        io |-> d.io,
        server |-> IF ran
                   THEN [x.server EXCEPT !.granted = x.server.lock # Nil /\ (@ \/ answered)]
                   ELSE s1]

\* ------------------------------------------------ RedisService::with_retry

\* The counter overflowed in a build with overflow checks.
Overflow == <<>>

\* attempts += 1: past u32::MAX the build decides, a panic with overflow
\* checks and a wrap to 0 without.
Incremented(a) == IF a = U32Max THEN {U32(0), Overflow} ELSE {Plus(a, 1)}

\* What the wrapped closure f can return: a value or an error.
FResults == {Ok("v1"), Ok("v2"), Err("e1"), Err("e2")}

\* What one evaluation of the closure of this call can come to.
Evaluations ==
    IF req = NoReq
    THEN {[res |-> r, io |-> <<>>, server |-> server] : r \in FResults}
    ELSE IF req.op \in DataOps /\ "val" \in DOMAIN req
    THEN {Evaluate(server, selfKind, req, net) : net \in DataOutcomes}
    ELSE {[res |-> Dispatch(selfKind, req, net).res,
           io |-> Dispatch(selfKind, req, net).io,
           server |-> server] : net \in NetOutcomes}

\* The retry delays the handles are configured with.
RetryDelays == {DefaultConfig.retry_delay_ms, 50}

\* The retry budgets the handles are configured with: the small ones, and the
\* two largest a u32 holds.
Budgets == {U32(n) : n \in 0..MaxRetries} \cup {<<Half - 1, Half - 2>>, U32Max}

\* A handle with any retry budget and delay, about to run with_retry(f).
InitRetry ==
    /\ store = EmptyMap
    /\ services = EmptyMap
    /\ writer = NoProc
    /\ open = {}
    /\ clones = {}
    /\ pc = [p \in Procs |-> "idle"]
    /\ call = [p \in Procs |-> NoCall]
    /\ ready = FALSE
    /\ committed = EmptyMap
    /\ pre = NoSnapshot
    /\ selfCfg \in {[DefaultConfig EXCEPT !.retries = n, !.retry_delay_ms = d] :
                      n \in Budgets, d \in RetryDelays}
    /\ rpc = "call"
    /\ attempts = U32(0)
    /\ skipped = U32(0)
    /\ history = <<>>
    /\ logs = <<>>
    /\ delays = <<>>
    /\ outcome = Pending
    /\ selfKind = "Standalone"
    /\ req = NoReq
    /\ backend = <<>>
    /\ server = EmptyServer
    /\ sub = NoSub
    /\ FnOff

\* match f().await: Ok(v) returns it; Err(e) counts the attempt and, when
\* attempts > self.cfg.retries, returns the error; otherwise the attempt is
\* logged and the task goes to sleep; a panic of f ends the task inside
\* with_retry. The invocations of f followed one by one
\* are capped: a counter that wrapped to 0 keeps the loop going.
RetryCall ==
    /\ rpc = "call"
    /\ Len(history) < MaxRetries + 2
    /\ IF ClosurePanics(selfKind, req)
       THEN /\ rpc' = "panic"
            /\ UNCHANGED <<attempts, logs, outcome, history, backend, server>>
       ELSE
       \E e \in Evaluations, a \in Incremented(attempts) : LET r == e.res IN
         /\ history' = Append(history, r)
         /\ backend' = backend \o e.io
         /\ server' = e.server
         /\ IF r.ok
            THEN /\ outcome' = r
                 /\ rpc' = "done"
                 /\ UNCHANGED <<attempts, logs>>
            ELSE IF a = Overflow
            THEN /\ rpc' = "panic"
                 /\ UNCHANGED <<attempts, logs, outcome>>
            ELSE /\ attempts' = a
                 /\ IF Gt(a, selfCfg.retries)
                    THEN /\ outcome' = r
                         /\ rpc' = "done"
                         /\ logs' = logs
                    ELSE /\ logs' = Append(logs, [attempt |-> a, error |-> r.val])
                         /\ rpc' = "sleep"
                         /\ outcome' = outcome
    /\ UNCHANGED <<selfCfg, skipped, delays, selfKind, req, notRetry>>

\* RetrySleep with a delay that grows with the number of retries (a backoff).
RetrySleep_Backoff ==
    /\ rpc = "sleep"
    /\ delays' = Append(delays, selfCfg.retry_delay_ms * (Len(delays) + 1))
    /\ rpc' = "call"
    /\ UNCHANGED <<selfCfg, attempts, skipped, history, logs, outcome, opVars, notRetry>>

\* tokio::time::sleep(Duration::from_millis(self.cfg.retry_delay_ms)).await,
\* then the loop calls f again.
RetrySleep ==
    /\ rpc = "sleep"
    /\ delays' = Append(delays, selfCfg.retry_delay_ms)
    /\ rpc' = "call"
    /\ UNCHANGED <<selfCfg, attempts, skipped, history, logs, outcome, opVars, notRetry>>

\* Where RetryRounds leaves the counter: two short of u32::MAX.
SkipTo == <<Half - 1, Half - 3>>

\* The first SkipTo turns of the loop in one step, for a budget that large and
\* an f that fails in each of them: each turn counts the attempt, finds
\* attempts <= self.cfg.retries, logs it and sleeps retry_delay_ms. The turns
\* are counted in skipped and not entered in history, logs and delays.
RetryRounds ==
    /\ rpc = "call"
    /\ history = <<>>
    /\ ~Gt(SkipTo, selfCfg.retries)
    /\ attempts' = SkipTo
    /\ skipped' = SkipTo
    /\ UNCHANGED <<selfCfg, rpc, history, logs, delays, outcome, opVars, notRetry>>

NextRetry == RetryCall \/ RetrySleep \/ RetryRounds

SpecRetry == InitRetry /\ [][NextRetry]_vars

\* The handles of the three deployments.
OpConfigs == {CfgLocal, CfgSentinel, CfgCluster}

\* A handle built from one of OpConfigs with any retry budget, about to run
\* one of its operations.
InitOp ==
    /\ store = EmptyMap
    /\ services = EmptyMap
    /\ writer = NoProc
    /\ open = {}
    /\ clones = {}
    /\ pc = [p \in Procs |-> "idle"]
    /\ call = [p \in Procs |-> NoCall]
    /\ ready = FALSE
    /\ committed = EmptyMap
    /\ pre = NoSnapshot
    /\ selfCfg \in {[c EXCEPT !.retries = n] : c \in OpConfigs, n \in Budgets}
    /\ selfKind = RedisServiceNew(selfCfg, "ok").val
    /\ req \in Requests
    /\ backend = <<>>
    /\ server = EmptyServer
    /\ sub = NoSub
    /\ rpc = "call"
    /\ attempts = U32(0)
    /\ skipped = U32(0)
    /\ history = <<>>
    /\ logs = <<>>
    /\ delays = <<>>
    /\ outcome = Pending
    /\ FnOff

SpecOp == InitOp /\ [][NextRetry]_vars

\* ------------------------------------------- calls followed into the backend

\* The calls of the operations ops on the databases dbs, made when the
\* backend is s; before is a ghost, the backend when the call was made
\* (kept for the calls on a list and on the lock).
DataRequests(ops, dbs, s) ==
    {[op |-> o, db |-> d, val |-> v, exp |-> x, before |-> EmptyServer] :
        o \in ops \cap {"set"}, d \in dbs, v \in Values, x \in BOOLEAN}
    \cup {[op |-> o, db |-> d, val |-> v, exp |-> FALSE, before |-> s] :
             o \in ops \cap {"lpush"}, d \in dbs, v \in Values}
    \cup {[op |-> o, db |-> d, val |-> "-", exp |-> FALSE, before |-> EmptyServer] :
             o \in ops \cap {"get", "del", "exists"}, d \in dbs}
    \cup {[op |-> o, db |-> d, val |-> "-", exp |-> FALSE, before |-> s] :
             o \in ops \cap {"rpop"}, d \in dbs}
    \cup {[op |-> o, db |-> 0, val |-> "-", exp |-> FALSE, before |-> s] :
             o \in ops \cap AdminOps}
    \cup {[op |-> o, db |-> d, val |-> "-", exp |-> FALSE, before |-> s, seconds |-> u] :
             o \in ops \cap TtlOps, d \in dbs, u \in Seconds}
    \cup {[op |-> o, db |-> 0, val |-> v, exp |-> FALSE, before |-> s] :
             o \in ops \cap LockOps, v \in Tokens}

\* A handle built from one of cfgs with a small retry budget, about to make
\* its first call on an empty backend.
InitData(cfgs, ops, dbs) ==
    /\ RegistryOff
    /\ FnOff
    /\ selfCfg \in {[c EXCEPT !.retries = U32(n)] : c \in cfgs, n \in 0..MaxRetries}
    /\ selfKind = RedisServiceNew(selfCfg, "ok").val
    /\ server = EmptyServer
    /\ sub = NoSub
    /\ req \in DataRequests(ops, dbs, EmptyServer)
    /\ backend = <<>>
    /\ rpc = "call"
    /\ attempts = U32(0)
    /\ skipped = U32(0)
    /\ history = <<>>
    /\ logs = <<>>
    /\ delays = <<>>
    /\ outcome = Pending

\* The call has returned and the caller makes the next one: with_retry
\* starts again with attempts = 0.
NextCall(ops, dbs) ==
    /\ rpc = "done"
    /\ server' = [server EXCEPT !.touched = FALSE]
    /\ req' \in DataRequests(ops, dbs, server')
    /\ rpc' = "call"
    /\ attempts' = U32(0)
    /\ history' = <<>>
    /\ logs' = <<>>
    /\ delays' = <<>>
    /\ outcome' = Pending
    /\ backend' = <<>>
    /\ UNCHANGED <<selfCfg, skipped, selfKind, notRetry>>

\* A key with an expiry expires: the lock, or the string key of a database.
Expire ==
    /\ \/ /\ server.lock # Nil
          /\ server' = [server EXCEPT !.lock = Nil, !.granted = FALSE, !.touched = TRUE]
       \/ \E d \in server.ttl :
             server' = [server EXCEPT !.str[d] = Nil, !.ttl = @ \ {d}, !.touched = TRUE]
    /\ UNCHANGED <<retryVars, selfKind, req, backend, notRetry>>

\* Another client of the backend sends the command of a try_lock or of an
\* unlock with a token of its own choice.
OtherClient ==
    /\ \E o \in LockOps, t \in Tokens :
         LET x == Exec(server, 0, [op |-> o, val |-> t])
         IN /\ x.server # server
            /\ server' = [x.server EXCEPT !.granted = FALSE, !.touched = TRUE]
    /\ UNCHANGED <<retryVars, selfKind, req, backend, notRetry>>

\* try_lock after with_retry: Ok(result.is_some()).
TryLockResult(o) == IF o.ok THEN Ok(o.val # "None") ELSE o

\* What the call returned to its caller.
CallResult == IF req.op = "try_lock" THEN TryLockResult(outcome) ELSE outcome

\* The lock: the calls of one handle, the expiry of the key, and another
\* client of the same backend.
InitLock == InitData({CfgLocal, CfgCluster}, LockOps, {0})

NextLock ==
    \/ RetryCall
    \/ RetrySleep
    \/ NextCall(LockOps, {0})
    \/ Expire
    \/ OtherClient

SpecLock == InitLock /\ [][NextLock]_vars

\* The string keys of a single-node handle: set, get, del and exists on
\* every database, and the expiry of a key; the handle retries once or not
\* at all.
InitKv ==
    /\ InitData({CfgLocal}, StringOps, 0..MaxDb)
    /\ ~Gt(selfCfg.retries, U32(1))

NextKv ==
    \/ RetryCall
    \/ RetrySleep
    \/ NextCall(StringOps, 0..MaxDb)
    \/ Expire

SpecKv == InitKv /\ [][NextKv]_vars

\* The list of database 0 of a single-node handle: lpush and rpop by a
\* handle that retries once or not at all, no other client.
InitList ==
    /\ InitData({CfgLocal}, ListOps, {0})
    /\ ~Gt(selfCfg.retries, U32(1))

\* The caller makes another call while the list is short.
NextListCall ==
    /\ Len(server.list[0]) < MaxList
    /\ NextCall(ListOps, {0})

NextList == RetryCall \/ RetrySleep \/ NextListCall

SpecList == InitList /\ [][NextList]_vars

\* ------------------------------------------------ the table redis_configs

\* The rows of the table in the order of their insertion; name is UNIQUE.
\* INSERT without the ON CONFLICT clause, on a table without the constraint.
SqlUpsert_AlwaysInserts(rows, name, json) ==
    Append(rows, [name |-> name, config_json |-> json])

\* INSERT INTO redis_configs (name, config_json) VALUES (?, ?)
\* ON CONFLICT(name) DO UPDATE SET config_json = excluded.config_json
SqlUpsert(rows, name, json) ==
    IF \E k \in 1..Len(rows) : rows[k].name = name
    THEN [k \in 1..Len(rows) |->
            IF rows[k].name = name THEN [rows[k] EXCEPT !.config_json = json]
            ELSE rows[k]]
    ELSE Append(rows, [name |-> name, config_json |-> json])

\* SELECT config_json FROM redis_configs WHERE name = ?
SqlSelect(rows, name) == SelectSeq(rows, LAMBDA r : r.name = name)

\* DELETE FROM redis_configs WHERE name = ?, and rows_affected().
SqlDelete(rows, name) ==
    [rows |-> SelectSeq(rows, LAMBDA r : r.name # name),
     rows_affected |-> Len(SqlSelect(rows, name))]

\* The order of two names: NameSeq lists the names in ascending order.
NameBefore(a, b) ==
    \E i, j \in 1..Len(NameSeq) : NameSeq[i] = a /\ NameSeq[j] = b /\ i < j

\* SELECT name, config_json FROM redis_configs ORDER BY name
RECURSIVE SqlOrderByName(_)
SqlOrderByName(rows) ==
    IF rows = <<>> THEN <<>>
    ELSE LET least == {k \in 1..Len(rows) :
                         \A j \in 1..Len(rows) : ~NameBefore(rows[j].name, rows[k].name)}
             first == CHOOSE k \in least : \A j \in least : k <= j
         IN <<rows[first]>>
            \o SqlOrderByName([k \in 1..(Len(rows) - 1) |->
                                 IF k < first THEN rows[k] ELSE rows[k + 1]])

\* DbManager::get_config on the map of the records: fetch_optional, and the
\* row decoded.
get_config(st, name) ==
    IF st[name] = NoRecord THEN None ELSE Some(FromJson(st[name]))

\* No call of the store yet.
NoStoreCall ==
    [op |-> "none", name |-> NoName, cfg |-> DefaultConfig, before |-> <<>>]

\* An empty table, nothing else running; input holds the rows of the table,
\* store the records by name, output the last call, libCalls its result.
InitStore ==
    /\ RetryOff
    /\ RegistryOff
    /\ input = <<>>
    /\ output = NoStoreCall
    /\ libCalls = <<>>

\* DbManager::save_config(name, config)
StoreSave ==
    /\ \E n \in Names, c \in OpConfigs :
         /\ input' = SqlUpsert(input, n, ToJson(c))
         /\ store' = save_config(store, n, c)
         /\ output' = [op |-> "save", name |-> n, cfg |-> c, before |-> input]
         /\ libCalls' = <<>>
    /\ UNCHANGED <<services, writer, open, clones, pc, call, ready, committed, pre,
                   retryVars, opVars, subVars>>

\* DbManager::get_config(name)
StoreGet ==
    /\ \E n \in Names :
         LET row == SqlSelect(input, n)
         IN /\ output' = [op |-> "get", name |-> n, cfg |-> DefaultConfig, before |-> input]
            /\ libCalls' = IF row = <<>> THEN None
                           ELSE Some(FromJson(row[1].config_json))
    /\ UNCHANGED <<input, regVars, retryVars, opVars, subVars>>

\* DbManager::list_configs()
StoreList ==
    /\ output' = [op |-> "list", name |-> NoName, cfg |-> DefaultConfig, before |-> input]
    /\ libCalls' = LET rows == SqlOrderByName(input)
                   IN [k \in 1..Len(rows) |->
                         <<rows[k].name, FromJson(rows[k].config_json)>>]
    /\ UNCHANGED <<input, regVars, retryVars, opVars, subVars>>

\* DbManager::delete_config(name)
StoreDelete ==
    /\ \E n \in Names :
         LET d == SqlDelete(input, n)
         IN /\ input' = d.rows
            /\ store' = delete_config(store, n).store
            /\ output' = [op |-> "delete", name |-> n, cfg |-> DefaultConfig, before |-> input]
            /\ libCalls' = <<d.rows_affected > 0>>
    /\ UNCHANGED <<services, writer, open, clones, pc, call, ready, committed, pre,
                   retryVars, opVars, subVars>>

NextStore == StoreSave \/ StoreGet \/ StoreList \/ StoreDelete

SpecStore == InitStore /\ [][NextStore]_vars

\* The health check of a handle of any of the three deployments that
\* retries once or not at all, between calls of set and del on database 0.
InitPing ==
    /\ InitData(OpConfigs, AdminOps \cup {"set", "del"}, {0})
    /\ ~Gt(selfCfg.retries, U32(1))

\* check_health after ping: Ok(()) for "PONG", an error otherwise.
CheckHealthResult(o) ==
    IF ~o.ok THEN Err("check health ping")
    ELSE IF o.val # "PONG" THEN Err("Unexpected health check response")
    ELSE Ok("()")

NextPing ==
    \/ RetryCall
    \/ RetrySleep
    \/ NextCall(AdminOps \cup {"set", "del"}, {0})

SpecPing == InitPing /\ [][NextPing]_vars

\* expire, between calls of set, on every database of a handle of any of
\* the three deployments that retries once or not at all; keys with an
\* expiry expire.
InitExpire ==
    /\ InitData(OpConfigs, TtlOps \cup {"set"}, 0..MaxDb)
    /\ ~Gt(selfCfg.retries, U32(1))

NextExpire ==
    \/ RetryCall
    \/ RetrySleep
    \/ NextCall(TtlOps \cup {"set"}, 0..MaxDb)
    \/ Expire

SpecExpire == InitExpire /\ [][NextExpire]_vars

\* ---------------------------------------------------- RedisService::subscribe

\* The `let url = ...` of subscribe: the first url of a cluster config, the
\* sentinel url, or the first url.
SubscribeUrl(cfg) ==
    IF cfg.cluster
    THEN IF Len(cfg.urls) = 0 THEN Err("no cluster seed url") ELSE Ok(cfg.urls[1])
    ELSE IF cfg.sentinel
    THEN IF cfg.sentinel_master_name = None
         THEN Err("no master name")
         ELSE build_sentinel_url(cfg.sentinel_master_name[1], cfg.sentinel_urls)
    ELSE IF Len(cfg.urls) = 0 THEN Err("no url") ELSE Ok(cfg.urls[1])

\* What the client library answers to subscribe: everything works, or
\* Client::open, get_async_pubsub or the SUBSCRIBE fails.
SubOutcomes == {"ok", "Client::open", "get_async_pubsub", "subscribe"}

\* The library calls of subscribe up to the one that failed.
SubCalls(lib) ==
    IF lib = "Client::open" THEN <<"Client::open">>
    ELSE IF lib = "get_async_pubsub" THEN <<"Client::open", "get_async_pubsub">>
    ELSE <<"Client::open", "get_async_pubsub", "subscribe">>

\* The messages published on the channel: two payloads that are strings,
\* and one that is not.
Messages == {[payload |-> "m1", text |-> TRUE], [payload |-> "m2", text |-> TRUE],
             [payload |-> "bytes", text |-> FALSE]}

\* A handle of any of the three deployments, with any small retry budget,
\* about to subscribe.
InitSub ==
    /\ RegistryOff
    /\ FnOff
    /\ selfCfg \in {[c EXCEPT !.retries = U32(n)] : c \in OpConfigs, n \in 0..MaxRetries}
    /\ selfKind = RedisServiceNew(selfCfg, "ok").val
    /\ req = NoReq
    /\ backend = <<>>
    /\ server = EmptyServer
    /\ rpc = "off"
    /\ attempts = U32(0)
    /\ skipped = U32(0)
    /\ history = <<>>
    /\ logs = <<>>
    /\ delays = <<>>
    /\ outcome = Pending
    /\ sub = NoSub

\* subscribe up to its return: the url, a client and a pubsub connection of
\* its own, SUBSCRIBE, and the message task spawned; any error is returned
\* through `?` at once.
Subscribe ==
    /\ sub.state = "none"
    /\ LET url == SubscribeUrl(selfCfg)
       IN IF ~url.ok
          THEN /\ sub' = [sub EXCEPT !.state = "failed"]
               /\ output' = url
               /\ libCalls' = <<>>
          ELSE \E lib \in SubOutcomes :
                 /\ libCalls' = SubCalls(lib)
                 /\ output' = IF lib = "ok" THEN Ok("()") ELSE Err(lib)
                 /\ sub' = IF lib = "ok"
                           THEN [sub EXCEPT !.state = "loop", !.conn = TRUE]
                           ELSE [sub EXCEPT !.state = "failed"]
    /\ UNCHANGED <<input, regVars, retryVars, opVars>>

\* A message published on the channel arrives on the open connection.
Arrive ==
    /\ sub.conn
    /\ Len(sub.stream) + Len(sub.received) < MaxMsgs
    /\ \E m \in Messages : sub' = [sub EXCEPT !.stream = Append(@, m)]
    /\ UNCHANGED <<fnVars, regVars, retryVars, opVars>>

\* OnMessage that goes on whatever the callback returns.
OnMessage_IgnoresAnswer ==
    /\ sub.state = "loop"
    /\ sub.stream # <<>>
    /\ LET m == Head(sub.stream)
           taken == [sub EXCEPT !.stream = Tail(@), !.received = Append(@, m)]
       IN IF ~m.text
          THEN sub' = taken
          ELSE \E again \in (IF sub.emit THEN {TRUE} ELSE BOOLEAN) :
                 sub' = [taken EXCEPT !.calls = Append(@, m.payload),
                                      !.answers = Append(@, again)]
    /\ UNCHANGED <<fnVars, regVars, retryVars, opVars>>

\* One turn of `while let Some(msg) = stream.next().await`: a payload that
\* is no string is logged and skipped; otherwise the callback is invoked,
\* and its false breaks the loop, which ends the task and drops the
\* connection.
OnMessage ==
    /\ sub.state = "loop"
    /\ sub.stream # <<>>
    /\ LET m == Head(sub.stream)
           taken == [sub EXCEPT !.stream = Tail(@), !.received = Append(@, m)]
       IN IF ~m.text
          THEN sub' = taken
          ELSE \E again \in (IF sub.emit THEN {TRUE} ELSE BOOLEAN) :
                 sub' = [taken EXCEPT !.calls = Append(@, m.payload),
                                      !.answers = Append(@, again),
                                      !.state = IF again THEN "loop" ELSE "ended",
                                      !.conn = again,
                                      !.orphan = @ \/ (sub.owner # None
                                                         /\ sub.owner[1] \notin open)]
    /\ UNCHANGED <<fnVars, regVars, retryVars, opVars>>

\* The connection is closed from the other side: stream.next() is None once
\* the messages that arrived are taken, and the task ends.
StreamEnds ==
    /\ sub.state = "loop"
    /\ sub.stream = <<>>
    /\ sub' = [sub EXCEPT !.state = "ended", !.conn = FALSE]
    /\ UNCHANGED <<fnVars, regVars, retryVars, opVars>>

NextSub == Subscribe \/ Arrive \/ OnMessage \/ StreamEnds

SpecSub == InitSub /\ [][NextSub]_vars

\* ------------------------------- subscribe_channel, remove and reload

\* The commands of the frontend that matter to a subscription: it is
\* started by subscribe_channel (one subscription is followed), and the
\* entry it was started from is removed or reloaded.
SubInvocations ==
    {[cmd |-> c, name |-> n] :
        c \in (IF sub.state = "none" THEN {"subscribe_channel"} ELSE {})
                  \cup {"remove_connection"},
        n \in Names}
        \cup {[cmd |-> "reload_services", name |-> NoName]}

\* The frontend invokes one of them.
InvokeSub ==
    /\ ready
    /\ pc[Boot] = "idle"
    /\ input = NoInput
    /\ input' \in SubInvocations
    /\ UNCHANGED <<output, libCalls, notFn>>

\* subscribe_channel after state.get_service(&name): NOT_FOUND for None;
\* otherwise svc.subscribe(channel, callback)?, whose callback emits the
\* payload to the frontend and returns true, and "subscribed".
SubscribeChannel ==
    /\ pc[Boot] = "ret"
    /\ input # NoInput
    /\ output = Pending
    /\ input.cmd = "subscribe_channel"
    /\ IF call[Boot].svc = None
       THEN /\ output' = ResponseErr("NOT_FOUND", TRUE)
            /\ libCalls' = <<>>
            /\ sub' = sub
       ELSE LET svc == call[Boot].svc[1]
                url == SubscribeUrl(svc.cfg)
            IN IF ~url.ok
               THEN /\ output' = InvokeError(FALSE)
                    /\ libCalls' = <<>>
                    /\ sub' = sub
               ELSE \E lib \in SubOutcomes :
                      /\ libCalls' = SubCalls(lib)
                      /\ output' = IF lib = "ok" THEN ResponseOk("subscribed", FALSE)
                                    ELSE InvokeError(FALSE)
                      /\ sub' = IF lib = "ok"
                                THEN [sub EXCEPT !.state = "loop", !.conn = TRUE,
                                                 !.emit = TRUE, !.owner = Some(svc)]
                                ELSE sub
    /\ UNCHANGED <<input, regVars, retryVars, opVars>>

\* The end of inner of remove_connection and of reload_services.
ReplyOther ==
    /\ input # NoInput
    /\ input.cmd # "subscribe_channel"
    /\ Reply

NextSubReg ==
    \/ InvokeSub
    \/ HandlerLookup \/ HandlerRemove \/ HandlerReload
    \/ RemoveDelete(Boot) \/ RemoveEntry(Boot)
    \/ ReloadList(Boot) \/ ReloadLock(Boot) \/ ReloadDial(Boot)
    \/ GetRead(Boot)
    \/ SubscribeChannel \/ ReplyOther \/ Returns \/ Answered
    \/ Arrive \/ OnMessage \/ StreamEnds

SpecSubReg == InitRpc /\ [][NextSubReg]_vars

\* ------------------------------------- build_sentinel_url, RedisService::new

\* What a list of addresses is written with: the pieces of an address, and
\* the boundary between two addresses.
Boundary == <<>>
Pieces == {RedisScheme, HttpScheme, <<Slash>>, <<HostText>>}

\* The list of addresses written by a sequence of pieces and boundaries.
RECURSIVE Addresses(_)
Addresses(t) ==
    IF Len(t) = 0 THEN <<<<>>>>
    ELSE LET rest == Addresses(Tail(t))
         IN IF Head(t) = Boundary
            THEN <<<<>>>> \o rest
            ELSE <<Head(t) \o rest[1]>> \o Tail(rest)

\* Every list of addresses of a size up to MaxInput, and the empty list.
SentinelLists ==
    {<<>>} \cup {Addresses(t) :
                   t \in UNION {[1..k -> Pieces \cup {Boundary}] : k \in 0..MaxInput}}

\* The master names: a name, and the empty string.
MasterNames == {<<"mymaster">>, <<>>}

\* build_sentinel_url is about to be called with any master name and list.
InitUrl ==
    /\ RegistryOff
    /\ RetryOff
    /\ input \in [master : MasterNames, urls : SentinelLists]
    /\ output = Pending
    /\ libCalls = <<>>

\* The call of build_sentinel_url(master, urls).
BuildUrl ==
    /\ output = Pending
    /\ output' = build_sentinel_url(input.master, input.urls)
    /\ UNCHANGED <<input, libCalls, notFn>>

SpecUrl == InitUrl /\ [][BuildUrl]_vars

\* The configs RedisService::new is given: every choice of the two topology
\* flags, of the master name, of the sentinel addresses and of the urls.
NewConfigs ==
    {[DefaultConfig EXCEPT !.cluster = c, !.sentinel = st, !.sentinel_master_name = m,
                           !.sentinel_urls = su, !.urls = u] :
        c \in BOOLEAN, st \in BOOLEAN,
        m \in {None} \cup {Some(n) : n \in MasterNames},
        su \in {<<>>, <<<<HostText>>>>,
                <<RedisScheme \o <<HostText, Slash>>, <<HostText>>>>},
        u \in {<<>>, DefaultConfig.urls}}

\* What the client library answers to one construction: it builds the
\* client and dials, it refuses the url, or the dial fails.
NewOutcomes == LibOutcomes \cup {"open"}

\* RedisService::new is about to be called with any of NewConfigs.
InitNew ==
    /\ RegistryOff
    /\ RetryOff
    /\ input \in NewConfigs
    /\ output = Pending
    /\ libCalls = <<>>

\* The call of RedisService::new(cfg).
New ==
    /\ output = Pending
    /\ \E lib \in NewOutcomes :
         /\ output' = RedisServiceNew(input, lib)
         /\ libCalls' = ClientCalls(input, lib)
    /\ UNCHANGED <<input, notFn>>

SpecNew == InitNew /\ [][New]_vars

\* ------------------------------------------------------------ properties

RegistryNames == {n \in Names : services[n] # None}

\* Every registered name has a persisted record.
Consistent == \A n \in Names : services[n] # None => store[n] # NoRecord

\* No call is running.
Quiet == \A p \in Procs : pc[p] = "idle"

Returned(p, op) == pc[p] = "ret" /\ call[p].op = op

\* add returned because the dial failed / because the store refused the save.
DialFailed(p) == Returned(p, "add") /\ call[p].res = Err("Failed to connect to Redis")
SaveFailed(p) == Returned(p, "add") /\ call[p].res = Err("Failed to save config to DB")

\* C1, as stated: after an add whose dial failed, the registry does not
\* contain the name and the store holds no record for it, whatever they held
\* before the call.
C1_FailedDialLeavesNameAbsent ==
    \A p \in Procs :
        DialFailed(p) =>
            /\ get_service(services, call[p].name) = None
            /\ store[call[p].name] = NoRecord

\* C1, amended: an add whose dial fails returns an error and leaves the
\* registry and the store exactly as they were before the call; so the name
\* is absent from both afterwards if it was absent from both before.
C1_FailedDialChangesNothing ==
    \A p \in Procs :
        DialFailed(p) =>
            /\ ~call[p].res.ok
            /\ services = pre.services
            /\ store = pre.store
            /\ (pre.services[call[p].name] = None /\ pre.store[call[p].name] = NoRecord
                  => /\ get_service(services, call[p].name) = None
                     /\ store[call[p].name] = NoRecord)

\* A dial failed for a name that was neither registered nor stored, while
\* another name was.
C1_Witness ==
    \E p \in Procs :
        /\ DialFailed(p)
        /\ pre.services[call[p].name] = None
        /\ pre.store[call[p].name] = NoRecord
        /\ \E m \in Names : services[m] # None /\ store[m] # NoRecord

\* C2: add dials, then persists, then inserts: nothing is persisted before the
\* handle exists, nothing is inserted before the config is persisted, and a
\* successful add has done both; when the save fails after a successful dial,
\* add returns an error, the new handle is dropped (its transport is released)
\* and the map is as it was.
C2_AddDialsPersistsInserts ==
    \A p \in Procs :
        call[p].op = "add" =>
            LET c == call[p]
                saved == save_config(pre.store, c.name, c.cfg)
            IN /\ pc[p] = "add_dial" =>
                    c.svc = None /\ store = pre.store /\ services = pre.services
               /\ pc[p] = "add_save" =>
                    /\ c.svc # None /\ c.svc[1].cfg = c.cfg
                    /\ store = pre.store /\ services = pre.services
               /\ pc[p] = "add_insert" =>
                    c.svc # None /\ store = saved /\ services = pre.services
               /\ (pc[p] = "ret" /\ c.res.ok) =>
                    /\ store = saved
                    /\ services[c.name] # None /\ services[c.name][1].cfg = c.cfg
                    /\ \A m \in Names \ {c.name} : services[m] = pre.services[m]
               /\ SaveFailed(p) =>
                    /\ ~c.res.ok
                    /\ c.svc = None
                    /\ open = Referenced(services, clones, call)
                    /\ services = pre.services

\* The save failed after the dial succeeded, for a name that is not registered.
C2_Witness ==
    \E p \in Procs : SaveFailed(p) /\ services[call[p].name] = None /\ open # {}

\* C3: when calls do not overlap, after each of them every registered name
\* has a persisted record.
C3_RegistryBackedByStore ==
    (\A p \in Procs : pc[p] \in {"idle", "ret"}) => Consistent

\* After some calls one name is registered and another is stored but not
\* registered (its dial failed).
C3_Witness ==
    /\ Quiet /\ ready
    /\ \E n, m \in Names :
         services[n] # None /\ store[m] # NoRecord /\ services[m] = None

\* C4: whatever the interleaving of concurrent add, remove and reload calls,
\* once all of them have returned every registered name has a persisted record.
C4_RacesKeepRegistryBacked == Quiet => Consistent

Reloaded(p) ==
    pc[p] = "ret" /\ call[p].op \in {"reload", "new"} /\ call[p].res.ok

C6_GetSeesPublishedMap ==
    /\ \A p \in Procs : Returned(p, "get") => call[p].svc = call[p].seen
    /\ writer = NoProc => services = committed

\* A get that began while a reload held the write lock returned a handle.
C6_Witness ==
    \E p \in Procs : Returned(p, "get") /\ call[p].busy /\ call[p].svc # None

\* The steps at which a task waits for a dial or for the store.
IoSteps == {"add_dial", "add_save", "remove_delete", "reload_list", "reload_dial"}

\* C7: no task holds the write lock while it waits for a dial or for the store.
C7_NoIoUnderWriteLock ==
    \A p \in Procs : writer = p => pc[p] \notin IoSteps

\* remove returned for a name that was neither registered nor stored, and the
\* store answered the delete.
RemovedAbsent(p) ==
    /\ Returned(p, "remove")
    /\ pre.services[call[p].name] = None
    /\ pre.store[call[p].name] = NoRecord
    /\ call[p].res # Err("Failed to delete config from DB")

\* C8: removing a name that has neither a registry entry nor a record succeeds
\* and changes neither the registry nor the store.
C8_RemoveAbsentIsOk ==
    \A p \in Procs :
        RemovedAbsent(p) =>
            /\ call[p].res.ok
            /\ ~call[p].deleted
            /\ services = pre.services
            /\ store = pre.store

\* An absent name was removed while another name was registered.
C8_Witness ==
    \E p \in Procs :
        /\ RemovedAbsent(p)
        /\ call[p].res.ok
        /\ \E m \in Names : services[m] # None

\* C9: after a successful remove, get returns nothing for the name, the store
\* has no record of it, and every clone a caller got before still has its
\* transport open.
C9_RemovedButClonesLive ==
    \A p \in Procs :
        (Returned(p, "remove") /\ call[p].res.ok) =>
            /\ get_service(services, call[p].name) = None
            /\ store[call[p].name] = NoRecord
            /\ \A c \in clones : c.svc \in open

\* The removed entry is one a caller still holds a clone of.
C9_Witness ==
    \E p \in Procs :
        /\ Returned(p, "remove") /\ call[p].res.ok
        /\ \E c \in clones :
             /\ call[p].removed = Some(c.svc)
             /\ c.svc \in open

\* f failed every time it was called.
AlwaysFailed == \A k \in 1..Len(history) : ~history[k].ok

\* The invocations of f, the sleeps and the log entries so far.
Calls == Plus(skipped, Len(history))
Sleeps == Plus(skipped, Len(delays))
Logged == Plus(skipped, Len(logs))

\* C10: for every retry budget, an operation that fails on every attempt is
\* attempted exactly retries + 1 times, with retries delays and retries log
\* entries, and then with_retry returns the error: it is never attempted more
\* often, the call does not abort, and after the failure of attempt
\* retries + 1 the call has returned.
C10_AlwaysFailingIsTriedBudgetPlusOne ==
    AlwaysFailed =>
        /\ rpc # "panic"
        /\ ~Gt(Calls, Plus(selfCfg.retries, 1))
        /\ Calls = Plus(selfCfg.retries, 1) => rpc = "done"
        /\ rpc = "done" =>
              /\ Calls = Plus(selfCfg.retries, 1)
              /\ Sleeps = selfCfg.retries
              /\ Logged = selfCfg.retries
              /\ \A k \in 1..Len(logs) :
                    logs[k].attempt = Plus(skipped, k) /\ logs[k].error = history[k].val
              /\ outcome = history[Len(history)]

\* C11: with_retry stops at the first successful attempt and returns that
\* attempt's value: no attempt follows a success, so when attempt k is the
\* first to succeed exactly k attempts were made, with k - 1 delays between
\* them; every delay is the configured retry_delay_ms; and an error that is
\* returned is the error of the last attempt.
C11_StopsAtFirstSuccess ==
    /\ \A k \in 1..Len(history) :
          history[k].ok => k = Len(history) /\ rpc = "done" /\ outcome = history[k]
    /\ \A k \in 1..Len(delays) : delays[k] = selfCfg.retry_delay_ms
    /\ Len(delays) <= Len(history)
    /\ rpc = "done" =>
          /\ outcome = history[Len(history)]
          /\ Plus(Sleeps, 1) = Calls

\* With the largest small budget, the last attempt the budget allows is the
\* first to succeed.
C11_Witness ==
    /\ rpc = "done" /\ outcome.ok
    /\ selfCfg.retries = U32(MaxRetries)
    /\ Len(history) = MaxRetries + 1
    /\ Len(delays) = MaxRetries

\* ------------------------------------------------------- topology dispatch

\* A db operation asked for a db other than 0 of a Cluster handle.
NonZeroDbOnCluster == req.op \in DbOps /\ req.db # 0 /\ selfKind = "Cluster"

\* Cluster introspection asked of a handle that is not a Cluster's.
IntrospectionOffCluster == req.op \in ClusterOnlyOps /\ selfKind # "Cluster"

\* C12: a db operation called with db other than 0 on a Cluster handle opens
\* no connection and sends no command, every evaluation of it is the
\* multiple-databases error, and what the call returns is that error.
C12_NonZeroDbOnClusterIsAnErrorWithoutIo ==
    NonZeroDbOnCluster =>
        /\ backend = <<>>
        /\ \A k \in 1..Len(history) : history[k] = Mismatch
        /\ rpc = "done" => outcome = Mismatch /\ ~outcome.ok

\* C12 witness: such a call has returned, on a handle with the largest of
\* the small budgets.
C12_Witness ==
    /\ NonZeroDbOnCluster
    /\ req.db = MaxDb
    /\ selfCfg.retries = U32(MaxRetries)
    /\ rpc = "done"
    /\ outcome = Mismatch

\* C13: the multiple-databases error is reported at once: the dispatch is
\* evaluated once, no delay elapses and nothing is logged.
C13_MismatchIsNeverRetried ==
    NonZeroDbOnCluster =>
        /\ Len(history) <= 1
        /\ Len(history) = 1 => rpc = "done"
        /\ delays = <<>>
        /\ logs = <<>>
        /\ skipped = U32(0)

\* C14: cluster introspection on a handle that is not a Cluster's sends no
\* command and is never answered with a success.
C14_IntrospectionOffClusterIsAnError ==
    IntrospectionOffCluster =>
        /\ backend = <<>>
        /\ \A k \in 1..Len(history) : ~history[k].ok
        /\ rpc = "done" => ~outcome.ok

\* ------------------------------------------------------ handle construction

\* The normalization of an address as the contract words it: one leading
\* redis:// or http:// removed if present, one trailing "/" removed if
\* present.
StrippedOnce(u) ==
    LET a == IF StartsWith(u, RedisScheme) \/ StartsWith(u, HttpScheme)
             THEN SubSeq(u, Len(RedisScheme) + 1, Len(u))
             ELSE u
    IN IF Len(a) > 0 /\ a[Len(a)] = Slash THEN SubSeq(a, 1, Len(a) - 1) ELSE a

\* C15: for every master name and every list of one address or more, the url
\* built is redis+sentinel:// followed by the addresses, each normalized as
\* StrippedOnce, joined by "," in their order, followed by "/" and the
\* master name.
C15_UrlIsTheOnceStrippedAddresses ==
    (output # Pending /\ Len(input.urls) > 0) =>
        output = Ok(SentinelScheme
                      \o Join([k \in 1..Len(input.urls) |-> StrippedOnce(input.urls[k])])
                      \o <<Slash>> \o input.master)

\* A config of the sentinel topology alone.
SentinelOnly == input.sentinel /\ ~input.cluster

\* C16: construction from a sentinel config with no sentinel address fails
\* before any call into the client library, and there is no handle.
C16_NoSentinelAddressFailsBeforeAnyClient ==
    (output # Pending /\ SentinelOnly /\ input.sentinel_urls = <<>>) =>
        /\ ~output.ok
        /\ libCalls = <<>>

\* C16 witness: new was called with a master name and no address, and
\* failed for the missing addresses.
C16_Witness ==
    /\ SentinelOnly
    /\ input.sentinel_master_name = Some(<<"mymaster">>)
    /\ input.sentinel_urls = <<>>
    /\ output = Err("No sentinel URLs provided")

\* C17: construction from a sentinel config whose master name is absent or
\* empty fails, and nothing is dialed.
C17_NoMasterNameFailsBeforeAnyDial ==
    (output # Pending /\ SentinelOnly
        /\ input.sentinel_master_name \in {None, Some(<<>>)}) =>
        /\ ~output.ok
        /\ \A k \in 1..Len(libCalls) : libCalls[k] = "Client::open"

\* C18: construction from a config that selects cluster and sentinel fails,
\* and a handle that is built has the kind of the topology its config
\* selects.
C18_ExactlyOneTopology ==
    output # Pending =>
        /\ (input.cluster /\ input.sentinel) => ~output.ok
        /\ output.ok => output.val = IF input.cluster THEN "Cluster" ELSE "Standalone"

\* ------------------------------------------------------------ the commands

\* C19 as stated: every command that takes a connection name answers
\* NOT_FOUND, in a response and not a fault, when the name is not in the
\* registry, and runs no operation.
C19_AbsentNameIsNotFound ==
    (output # Pending /\ input.cmd \in NamedCmds /\ output.absent) =>
        /\ output.kind = "response"
        /\ ~output.success
        /\ output.code = "NOT_FOUND"
        /\ libCalls = <<>>

\* C19: every command that looks the handle up with get_service answers
\* NOT_FOUND, in a response and not a fault, when the name is not in the
\* registry, and runs no operation; it answers NOT_FOUND in no other case.
C19_HandleCommandsAnswerNotFound ==
    (output # Pending /\ input.cmd \in HandleCmds) =>
        /\ output.absent =>
              /\ output.kind = "response"
              /\ ~output.success
              /\ output.code = "NOT_FOUND"
              /\ libCalls = <<>>
        /\ pc[Boot] = "ret" => (output.absent <=> call[Boot].svc = None)
        /\ output.code = "NOT_FOUND" => output.absent

\* C19 witness: get_value of a name that is not registered, while another
\* name is, was answered NOT_FOUND.
C19_Witness ==
    /\ output # Pending
    /\ input.cmd = "get_value"
    /\ services[input.name] = None
    /\ RegistryNames # {}
    /\ output = ResponseErr("NOT_FOUND", TRUE)

\* C20: every answer is a response, and the answer to a command that failed
\* has success = false and a code.
C20_FailuresAreResponses ==
    output # Pending =>
        /\ output.kind = "response"
        /\ output.code # "-"

\* ---------------------------------------------------------------- the lock

\* A call of the handle has returned a value, and during it no key expired
\* and no other client wrote.
Undisturbed == rpc = "done" /\ outcome.ok /\ ~server.touched

\* C21: while the lock is held through an answered try_lock with token A, a
\* try_lock returns false and leaves A, an unlock with another token returns
\* false and leaves A, and an unlock with A returns true and removes the
\* key; a try_lock on the free lock then returns true and holds it.
C21_LockIsExclusive ==
    Undisturbed =>
        LET held == req.before.lock
        IN /\ (req.op = "try_lock" /\ req.before.granted) =>
                 CallResult = Ok(FALSE) /\ server.lock = held
           /\ (req.op = "unlock" /\ req.before.granted /\ req.val # held) =>
                 CallResult = Ok(FALSE) /\ server.lock = held
           /\ (req.op = "unlock" /\ req.before.granted /\ req.val = held) =>
                 CallResult = Ok(TRUE) /\ server.lock = Nil
           /\ (req.op = "try_lock" /\ held = Nil) =>
                 CallResult = Ok(TRUE) /\ server.lock = req.val

\* C22: an evaluation of unlock(r, A) changes the key only by deleting it,
\* and only when its value at that moment is A, whatever expired and
\* whatever another client did before it.
C22_UnlockDeletesOnlyItsOwnToken ==
    [][(req.op = "unlock" /\ history' # history /\ server'.lock # server.lock) =>
          server.lock = req.val /\ server'.lock = Nil]_vars

\* C22 witness: unlock(r, A) was called while A held the lock, the key
\* expired and another client took the lock with B before unlock was
\* evaluated, and unlock returned false with B still holding it.
C22_Witness ==
    /\ rpc = "done"
    /\ req.op = "unlock"
    /\ req.val = "A"
    /\ req.before.lock = "A"
    /\ backend # <<>>
    /\ server.lock = "B"
    /\ outcome = Ok(FALSE)

\* ------------------------------------------------------------ subscriptions

\* The payloads of the messages of ms that are strings, in their order.
RECURSIVE Texts(_)
Texts(ms) ==
    IF ms = <<>> THEN <<>>
    ELSE IF Head(ms).text THEN <<Head(ms).payload>> \o Texts(Tail(ms))
    ELSE Texts(Tail(ms))

\* The connection of a subscription is its own, the callback answered false
\* at most once and last, and its false ended the loop and released the
\* connection.
OwnConnectionUntilFalse ==
    /\ backend = <<>>
    /\ sub.conn => libCalls = SubCalls("ok")
    /\ \A k \in 1..Len(sub.answers) : ~sub.answers[k] =>
          k = Len(sub.answers) /\ sub.state = "ended" /\ ~sub.conn

\* C23 as stated: the callback is invoked once for every message received,
\* in the order of arrival.
C23_CallbackOncePerMessage ==
    /\ OwnConnectionUntilFalse
    /\ sub.calls = [k \in 1..Len(sub.received) |-> sub.received[k].payload]

\* C23: the callback is invoked once for every message received whose
\* payload is a string, in the order of arrival, and for no other message.
C23_CallbackOncePerTextMessage ==
    /\ OwnConnectionUntilFalse
    /\ sub.calls = Texts(sub.received)
    /\ Len(sub.answers) = Len(sub.calls)

\* C23 witness: a message that is no string was skipped, the callback took
\* the next message and answered false, and a message that had arrived by
\* then was never taken.
C23_Witness ==
    /\ sub.state = "ended"
    /\ Len(sub.received) = 2
    /\ ~sub.received[1].text
    /\ sub.answers = <<FALSE>>
    /\ sub.stream # <<>>
    /\ ~sub.conn

\* C27: a subscribe that fails has been tried once more than the retry
\* budget of the handle.
C27_SubscribeIsRetried ==
    sub.state = "failed" =>
        Cardinality({k \in 1..Len(libCalls) : libCalls[k] = "Client::open"})
            = selfCfg.retries[2] + 1

\* ----------------------------------------------------- keys and databases

\* This step is one attempt of the call: an evaluation of its closure.
Attempt == rpc = "call" /\ Len(history') = Len(history) + 1

\* This step is the attempt of the call that returns Ok to the caller.
Completes == rpc = "call" /\ rpc' = "done" /\ outcome'.ok

\* What get returns for the value v of a key.
Got(v) == IF v = Nil THEN "None" ELSE v

\* C24: on a single-node handle, a set that succeeds leaves its value in the
\* key of its database, a get returns the value the key has in its database,
\* a del that returns true leaves the key absent, exists tells whether the
\* key is there, and the key of a database changes only by a set or a del of
\* this database or by its expiry.
C24_KvRoundTripPerDb ==
    [][/\ (Completes /\ req.op = "set") => server'.str[req.db] = req.val
       /\ (Completes /\ req.op = "get") =>
             outcome'.val = Got(server'.str[req.db]) /\ server'.str = server.str
       /\ (Completes /\ req.op = "del" /\ outcome'.val) => server'.str[req.db] = Nil
       /\ (Completes /\ req.op = "exists") =>
             outcome'.val = (server'.str[req.db] # Nil) /\ server'.str = server.str
       /\ \A d \in 0..MaxDb : server'.str[d] # server.str[d] =>
             \/ history' = history /\ d \in server.ttl /\ server'.str[d] = Nil
             \/ Attempt /\ req.db = d /\ req.op \in {"set", "del"}]_vars

\* C24 witness: a get of the last database returned the value set there,
\* while database 0 holds another value.
C24_Witness ==
    /\ rpc = "done" /\ req.op = "get" /\ req.db = MaxDb
    /\ outcome = Ok("v1")
    /\ server.str[MaxDb] = "v1" /\ server.str[0] = "v2"

\* The connection events of one attempt of the call that is under way.
OwnSelectThenCommand(io) ==
    /\ Len(io) \in {1, 3}
    /\ io[1] = [conn |-> "own", cmd |-> "get_connection"]
    /\ Len(io) = 3 => /\ io[2] = [conn |-> "own", cmd |-> "SELECT"]
                      /\ io[3] = [conn |-> "own", cmd |-> req.op]

\* C30: on a single-node handle every attempt of an operation with db # 0
\* opens a connection of its own and sends SELECT before the command on it,
\* every attempt with db = 0 sends its command on the manager and changes
\* database 0 only, and no SELECT is ever sent on the manager, which stays
\* in database 0.
C30_SelectOnlyOnOwnConnection ==
    [][/\ server'.manager_db = 0
       /\ Attempt =>
             LET io == SubSeq(backend', Len(backend) + 1, Len(backend'))
             IN /\ \A k \in 1..Len(io) : ~(io[k].conn = "manager" /\ io[k].cmd = "SELECT")
                /\ req.db # 0 => OwnSelectThenCommand(io)
                /\ req.db = 0 =>
                      /\ io = <<[conn |-> "manager", cmd |-> req.op]>>
                      /\ \A d \in 1..MaxDb : server'.str[d] = server.str[d]
                      /\ Completes /\ req.op = "get" =>
                            outcome'.val = Got(server.str[0])]_vars

\* C30 witness: after a set on another database, a get with db = 0 returned
\* the value of database 0.
C30_Witness ==
    /\ rpc = "done" /\ req.op = "get" /\ req.db = 0
    /\ outcome = Ok("v2")
    /\ server.str[0] = "v2" /\ server.str[MaxDb] = "v1"
    /\ backend = <<[conn |-> "manager", cmd |-> "get"]>>

\* ----------------------------------------------------------- retried calls

\* C28: when a call of lpush or rpop has returned Ok, the list is what one
\* application of the operation makes of the list the call found, and the
\* value returned is the reply of that one application.
C28_RetryAppliesTheOperationOnce ==
    (rpc = "done" /\ outcome.ok /\ req.op \in ListOps) =>
        LET once == Exec(req.before, req.db, req)
        IN /\ server.list = once.server.list
           /\ outcome.val = once.reply

\* --------------------------------------------------------------- the store

\* The rows of the table with name n.
RowsOf(rows, n) == {k \in 1..Len(rows) : rows[k].name = n}

\* The records by name are the rows of the table, and the operations on
\* the records give what the statements give on the rows.
StoreIsTheTable ==
    /\ \A n \in Names :
          /\ store[n] = NoRecord <=> RowsOf(input, n) = {}
          /\ \A k \in RowsOf(input, n) : store[n] = input[k].config_json
    /\ output.op = "list" => libCalls = list_configs(store)
    /\ output.op = "get" => libCalls = get_config(store, output.name)
    /\ output.op = "delete" =>
          libCalls = <<delete_config([n \in Names |->
                         IF RowsOf(output.before, n) = {} THEN NoRecord
                         ELSE output.before[CHOOSE k \in RowsOf(output.before, n) : TRUE]
                                  .config_json],
                                     output.name).deleted>>

\* C25: the table has at most one row per name; after save(name, cfg),
\* get(name) is cfg, and saving under an existing name adds no row; get
\* returns the saved config of its name or nothing; list returns one entry
\* per row in ascending order of name; delete returns true exactly when
\* there was a row of the name, and leaves none.
C25_OneRecordPerName ==
    /\ StoreIsTheTable
    /\ \A n \in Names : Cardinality(RowsOf(input, n)) <= 1
    /\ output.op = "save" =>
          /\ get_config(store, output.name) = Some(output.cfg)
          /\ Len(input) = Len(output.before)
                + (IF RowsOf(output.before, output.name) = {} THEN 1 ELSE 0)
          /\ \A n \in Names \ {output.name} :
                \A k \in RowsOf(input, n) : input[k] \in {output.before[j] : j \in 1..Len(output.before)}
    /\ output.op = "list" =>
          /\ Len(libCalls) = Len(input)
          /\ \A k \in 1..Len(libCalls) : get_config(store, libCalls[k][1]) = Some(libCalls[k][2])
          /\ \A j, k \in 1..Len(libCalls) : j < k => NameBefore(libCalls[j][1], libCalls[k][1])
    /\ output.op = "delete" =>
          /\ libCalls[1] <=> RowsOf(output.before, output.name) # {}
          /\ get_config(store, output.name) = None
          /\ Len(input) = Len(output.before) - (IF libCalls[1] THEN 1 ELSE 0)

\* C25 witness: the rows were inserted in descending order of name, the
\* first of them was saved again with another config, and list returned
\* the two records in ascending order with the config saved last.
C25_Witness ==
    /\ output.op = "list"
    /\ Len(input) = 2
    /\ input[1].name = NameSeq[2] /\ input[1].config_json = ToJson(CfgCluster)
    /\ libCalls = <<<<NameSeq[1], CfgLocal>>, <<NameSeq[2], CfgCluster>>>>

\* ------------------------------------------------- commands of the store

\* This step is save_config or delete_config answering its invocation.
StoreCmdAnswers ==
    input # NoInput /\ output = Pending /\ output' # Pending /\ input.cmd \in StoreCmds

\* C26: a save_config or delete_config command leaves every entry of the
\* registry, every open handle and the lock as they are, and changes the
\* store as the store's save and delete do (not at all when it fails).
C26_StoreCommandsLeaveTheRegistry ==
    [][StoreCmdAnswers =>
          /\ services' = services /\ open' = open /\ clones' = clones
          /\ writer' = writer
          /\ store' = IF ~output'.success THEN store
                      ELSE IF input.cmd = "save_config"
                      THEN save_config(store, input.name, input.cfg)
                      ELSE delete_config(store, input.name).store]_vars

\* C26 witness: a lookup returns the handle registered under a name whose
\* record has been deleted.
C26_Witness ==
    /\ input # NoInput /\ input.cmd \in HandleCmds
    /\ pc[Boot] = "ret"
    /\ call[Boot].svc # None
    /\ store[input.name] = NoRecord

\* ---------------------------------------------------- failures in isolation

\* An add that returned an error.
AddFailed(p) == Returned(p, "add") /\ ~call[p].res.ok

\* C29: an add that returns an error leaves the map as it was, and the store
\* too when it was the dial that failed; after a reload, every stored name
\* whose own dial did not fail is registered with a handle of its stored
\* config, whatever failed for the other names.
C29_FailureTouchesNoOtherEntry ==
    \A p \in Procs :
        /\ AddFailed(p) =>
              /\ services = pre.services
              /\ DialFailed(p) => store = pre.store
        /\ Reloaded(p) =>
              \A n \in StoredNames(pre.store) \ call[p].failed :
                  /\ services[n] # None
                  /\ services[n][1].cfg = FromJson(pre.store[n])

\* C29 witness: an add under a registered name failed at the save, and the
\* entry of the name and the entry of another name are there.
C29_Witness ==
    \E p \in Procs :
        /\ SaveFailed(p)
        /\ pre.services[call[p].name] # None
        /\ \E m \in Names \ {call[p].name} : services[m] # None

\* ------------------------------------------- subscriptions and the registry

\* C31: a running subscription loop changes only by a message that arrives
\* or is taken; it ends only when its callback has just returned false or
\* when the stream ends; no step of remove or reload changes it; and the
\* callback of subscribe_channel never returns false.
C31_NoExternalCancellation ==
    [][/\ (sub.state = "loop" /\ sub'.state # "loop") =>
             /\ sub'.state = "ended"
             /\ \/ sub.stream = <<>> /\ sub'.answers = sub.answers
                \/ /\ Len(sub'.answers) = Len(sub.answers) + 1
                   /\ ~sub'.answers[Len(sub'.answers)]
       /\ (sub.state = "loop" /\ (services' # services \/ open' # open \/ store' # store)) =>
             sub' = sub
       /\ sub.emit => \A k \in 1..Len(sub'.answers) : sub'.answers[k]]_vars

\* C31 witness: the entry the subscription was started from has been
\* removed together with its record and its handle is gone, and the loop
\* has since handed a message to the callback and goes on.
C31_Witness ==
    /\ sub.state = "loop"
    /\ sub.orphan
    /\ sub.owner[1] \notin open
    /\ \A n \in Names : services[n] = None /\ store[n] = NoRecord

\* ------------------------------------------------------- concurrent adds

\* C32: when two calls of add for one name with different configs have both
\* returned Ok, the handle registered under the name was built from the
\* config persisted under the name.
C32_ConcurrentAddsAgree ==
    \A p, q \in Procs :
        (/\ p # q
         /\ Returned(p, "add") /\ call[p].res.ok
         /\ Returned(q, "add") /\ call[q].res.ok
         /\ call[p].name = call[q].name
         /\ call[p].cfg # call[q].cfg) =>
            LET n == call[p].name
            IN /\ services[n] # None
               /\ store[n] # NoRecord
               /\ services[n][1].cfg = FromJson(store[n])

\* ----------------------------------------------------- failures of the store

\* A remove that returned the error of the store's delete.
DeleteFailed(p) ==
    Returned(p, "remove") /\ call[p].res = Err("Failed to delete config from DB")

\* C33: a remove whose delete fails returns an error and leaves the map and
\* the store as they were: a get of the name gives what it gave before.
C33_FailedDeleteKeepsTheEntry ==
    \A p \in Procs :
        /\ DeleteFailed(p) =>
              /\ services = pre.services
              /\ store = pre.store
              /\ get_service(services, call[p].name)
                    = get_service(pre.services, call[p].name)
        /\ (Returned(p, "remove") /\ ~call[p].res.ok) => DeleteFailed(p)

\* C33 witness: the remove of a registered name failed, and the name is
\* registered.
C33_Witness ==
    \E p \in Procs :
        /\ DeleteFailed(p)
        /\ pre.services[call[p].name] # None
        /\ get_service(services, call[p].name) # None

\* A reload that returned the error of list_configs.
ListFailed(p) == Returned(p, "reload") /\ ~call[p].res.ok

C35_RefusedLockIsNotHeld ==
    (/\ rpc = "done" /\ req.op = "try_lock"
     /\ outcome.ok /\ CallResult = Ok(FALSE)
     /\ ~server.touched
     /\ req.before.lock # req.val) =>
        server.lock # req.val

\* --------------------------------------------------------- the health check

\* The keys of the backend: what a client can read of it.
KeySpace(s) == [str |-> s.str, ttl |-> s.ttl, list |-> s.list, lock |-> s.lock,
                ping |-> s.ping]

\* C36: when a health check has returned, the keys of the backend are what
\* they were when it was called.
C36_HealthCheckLeavesTheKeys ==
    (rpc = "done" /\ req.op = "ping") => KeySpace(server) = KeySpace(req.before)

\* ------------------------------------------------------------------ progress

\* C37: with a fair lock and dials and store calls that return, every call
\* of get, add, remove or reload that has started returns.
C37_EveryCallCompletes ==
    \A p \in Procs : (pc[p] \notin {"idle", "ret"}) ~> (pc[p] = "ret")

\* C37 witness: a get that started while the reload of the other task held
\* the write guard has returned with the handle that reload inserted.
C37_Witness ==
    \E p \in Procs :
        /\ Returned(p, "get") /\ call[p].busy
        /\ call[p].svc # None

\* ------------------------------------------------------ the attempt counter

\* C38: for every retry budget the counter of failed attempts neither
\* overflows (the task does not abort) nor wraps (a counter of 0 means that
\* no attempt has failed).
C38_CounterNeverOverflows ==
    /\ rpc # "panic"
    /\ attempts = U32(0) => /\ skipped = U32(0)
                            /\ \A k \in 1..Len(history) : history[k].ok

\* ----------------------------------------------------------------- expire

\* C39: a call of expire returns a result, a success or an error, for every
\* seconds: its task is never aborted by the conversion of seconds.
C39_ExpireReturnsAResult ==
    req.op \in TtlOps => rpc # "panic"

====
